---------------------------- MODULE Spec2Model ----------------------------
(***************************************************************************)
(* RamSleuth: the rule database loader, the heuristic resolver (is_match   *)
(* and find_die_type) and the decoder output parser, as state machines.    *)
(*                                                                         *)
(* Python values are tagged records [t, s, n, e]: t is the Python type,    *)
(* s the text of a str, n the value of an int or bool (or the mantissa of  *)
(* a float), e the decimal exponent of a float (the float is n / 10^e).    *)
(* Python dicts are functions from key strings to such values.             *)
(***************************************************************************)
EXTENDS Integers, Sequences, FiniteSets, TLC

(***************************************************************************)
(* Strings: the str methods the code calls.                                *)
(***************************************************************************)

\* Printable ASCII in code point order, from 32 (space) to 126. The lexer rejects
\* a backquote inside a string, so code point 96 is held by a form feed, which no
\* input of the model contains.
Ascii ==
  " !\"#$%&'()*+,-./0123456789:;<=>?@ABCDEFGHIJKLMNOPQRSTUVWXYZ[\\]^_\fabcdefghijklmnopqrstuvwxyz{|}~"

CharAt(s, i) == SubSeq(s, i, i)

AsciiChars == {CharAt(Ascii, i) : i \in 1..Len(Ascii)}

\* ord(c) - 31 of every printable ASCII character (the order of ord is kept).
OrdTable == [c \in AsciiChars |-> CHOOSE i \in 1..Len(Ascii) : CharAt(Ascii, i) = c]

\* 0 for any other character (a tab, a line break).
Ord(c) == IF c \in AsciiChars THEN OrdTable[c] ELSE 0

IsUpperChar(c) == Ord(c) >= OrdTable["A"] /\ Ord(c) <= OrdTable["Z"]
IsLowerChar(c) == Ord(c) >= OrdTable["a"] /\ Ord(c) <= OrdTable["z"]
IsDigitChar(c) == Ord(c) >= OrdTable["0"] /\ Ord(c) <= OrdTable["9"]
IsSpaceChar(c) == c \in {" ", "\t", "\n", "\r"}

\* c.lower() and c.upper() of every printable ASCII character
LowerTable ==
  [c \in AsciiChars |->
     IF OrdTable[c] >= OrdTable["A"] /\ OrdTable[c] <= OrdTable["Z"]
     THEN CharAt(Ascii, OrdTable[c] + 32) ELSE c]
UpperTable ==
  [c \in AsciiChars |->
     IF OrdTable[c] >= OrdTable["a"] /\ OrdTable[c] <= OrdTable["z"]
     THEN CharAt(Ascii, OrdTable[c] - 32) ELSE c]

LowerChar(c) == IF c \in AsciiChars THEN LowerTable[c] ELSE c
UpperChar(c) == IF c \in AsciiChars THEN UpperTable[c] ELSE c

RECURSIVE Lower(_)
Lower(s) == IF s = "" THEN "" ELSE LowerChar(CharAt(s, 1)) \o Lower(Tail(s))

RECURSIVE Upper(_)
Upper(s) == IF s = "" THEN "" ELSE UpperChar(CharAt(s, 1)) \o Upper(Tail(s))

RECURSIVE LStrip(_)
LStrip(s) == IF s # "" /\ IsSpaceChar(CharAt(s, 1)) THEN LStrip(Tail(s)) ELSE s

RECURSIVE RStrip(_)
RStrip(s) ==
  IF s # "" /\ IsSpaceChar(CharAt(s, Len(s))) THEN RStrip(SubSeq(s, 1, Len(s) - 1)) ELSE s

Strip(s) == LStrip(RStrip(s))

StartsWith(s, p) == Len(p) <= Len(s) /\ SubSeq(s, 1, Len(p)) = p
EndsWith(s, p) == Len(p) <= Len(s) /\ SubSeq(s, Len(s) - Len(p) + 1, Len(s)) = p

\* p in s
Contains(s, p) == \E i \in 1..(Len(s) - Len(p) + 1) : SubSeq(s, i, i + Len(p) - 1) = p

\* s < t for two str, as Python compares them: by code point, a proper prefix first.
RECURSIVE StrLess(_, _)
StrLess(s, t) ==
  IF t = "" THEN FALSE
  ELSE IF s = "" THEN TRUE
  ELSE IF CharAt(s, 1) = CharAt(t, 1) THEN StrLess(Tail(s), Tail(t))
  ELSE Ord(CharAt(s, 1)) < Ord(CharAt(t, 1))

\* sep.join(seq)
RECURSIVE Join(_, _)
Join(sep, seq) ==
  IF seq = << >> THEN ""
  ELSE IF Len(seq) = 1 THEN seq[1]
  ELSE seq[1] \o sep \o Join(sep, Tail(seq))

\* A sort in descending order, as a wrong comparison would give.
RECURSIVE SortedStrings_Descending(_)
SortedStrings_Descending(S) ==
  IF S = {} THEN << >>
  ELSE LET m == CHOOSE x \in S : \A y \in S \ {x} : StrLess(y, x)
       IN <<m>> \o SortedStrings_Descending(S \ {m})

\* sorted(S) for a set of str
RECURSIVE SortedStrings(_)
SortedStrings(S) ==
  IF S = {} THEN << >>
  ELSE LET m == CHOOSE x \in S : \A y \in S \ {x} : StrLess(x, y)
       IN <<m>> \o SortedStrings(S \ {m})

\* str(n) for an int n >= 0
RECURSIVE NatToStr(_)
NatToStr(n) ==
  IF n < 10 THEN CharAt("0123456789", n + 1)
  ELSE NatToStr(n \div 10) \o CharAt("0123456789", (n % 10) + 1)

IntToStr(n) == IF n < 0 THEN "-" \o NatToStr(-n) ELSE NatToStr(n)

(***************************************************************************)
(* Python values and the built-ins the code applies to them.               *)
(***************************************************************************)

StrV(x) == [t |-> "str", s |-> x, n |-> 0, e |-> 0]
IntV(k) == [t |-> "int", s |-> "", n |-> k, e |-> 0]
BoolV(b) == [t |-> "bool", s |-> "", n |-> IF b THEN 1 ELSE 0, e |-> 0]
\* The float m / 10^x, with m not a multiple of 10 unless x = 0.
FloatV(m, x) == [t |-> "float", s |-> "", n |-> m, e |-> x]
NoneV == [t |-> "none", s |-> "", n |-> 0, e |-> 0]

IsStr(v) == v.t = "str"
IsNumber(v) == v.t \in {"int", "bool", "float"}

\* a == b
PyEq(a, b) ==
  IF IsNumber(a) /\ IsNumber(b) THEN a.n = b.n /\ a.e = b.e
  ELSE a.t = b.t /\ a.s = b.s

\* bool(v)
Truthy(v) ==
  CASE v.t = "str" -> v.s # ""
    [] v.t = "none" -> FALSE
    [] OTHER -> v.n # 0

\* d.get(k) and d.get(k, default) of a dict d
Get(d, k) == IF k \in DOMAIN d THEN d[k] ELSE NoneV
GetOr(d, k, default) == IF k \in DOMAIN d THEN d[k] ELSE default

RECURSIVE Zeros(_)
Zeros(k) == IF k <= 0 THEN "" ELSE "0" \o Zeros(k - 1)

\* repr of the float m / 10^x, m >= 0, in the range where Python prints no exponent
FloatToStr(m, x) ==
  LET ds == NatToStr(m)
      padded == Zeros(x + 1 - Len(ds)) \o ds
  IN IF x = 0 THEN ds \o ".0"
     ELSE SubSeq(padded, 1, Len(padded) - x) \o "." \o
          SubSeq(padded, Len(padded) - x + 1, Len(padded))

\* str(v)
PyStr(v) ==
  CASE v.t = "str" -> v.s
    [] v.t = "int" -> IntToStr(v.n)
    [] v.t = "bool" -> IF v.n = 1 THEN "True" ELSE "False"
    [] v.t = "float" -> FloatToStr(v.n, v.e)
    [] OTHER -> "None"

RECURSIVE AllDigits(_)
AllDigits(s) == s = "" \/ (IsDigitChar(CharAt(s, 1)) /\ AllDigits(Tail(s)))

RECURSIVE DigitsToNat(_)
DigitsToNat(s) ==
  IF s = "" THEN 0
  ELSE 10 * DigitsToNat(SubSeq(s, 1, Len(s) - 1)) + (Ord(CharAt(s, Len(s))) - Ord("0"))

RECURSIVE StripTrailingZeros(_)
StripTrailingZeros(s) ==
  IF s # "" /\ CharAt(s, Len(s)) = "0" THEN StripTrailingZeros(SubSeq(s, 1, Len(s) - 1)) ELSE s

\* float(s) of a str: the unsigned decimal forms "12", "12.5", "12." and ".5", with
\* white space around them; any other text is a ValueError (ok = FALSE). The signed,
\* exponent, inf and nan forms float() also reads are in no input of the model.
StrToFloat(s) ==
  LET t == Strip(s)
      dot == IF Contains(t, ".") THEN CHOOSE i \in 1..Len(t) : CharAt(t, i) = "." /\
                                        ~Contains(SubSeq(t, 1, i - 1), ".")
             ELSE 0
      ip == IF dot = 0 THEN t ELSE SubSeq(t, 1, dot - 1)
      fp == IF dot = 0 THEN "" ELSE StripTrailingZeros(SubSeq(t, dot + 1, Len(t)))
      raw == IF dot = 0 THEN "" ELSE SubSeq(t, dot + 1, Len(t))
  IN IF AllDigits(ip) /\ AllDigits(raw) /\ (ip \o raw) # ""
     THEN [ok |-> TRUE, n |-> DigitsToNat(ip \o fp), e |-> Len(fp)]
     ELSE [ok |-> FALSE, n |-> 0, e |-> 0]

\* float(v): a TypeError for None, a ValueError for text that is no number
PyFloat(v) ==
  CASE v.t = "str" -> StrToFloat(v.s)
    [] v.t = "none" -> [ok |-> FALSE, n |-> 0, e |-> 0]
    [] OTHER -> [ok |-> TRUE, n |-> v.n, e |-> v.e]

(***************************************************************************)
(* is_match (RamSleuth_DB.py): one test per recognized constraint key, in  *)
(* the order of the code, each returning False as soon as it fails.        *)
(***************************************************************************)

\* An exact test that a key is_match does not know can fail.
FailsExact_UnknownKeyFails(dimm, entry, k) ==
  ~PyEq(Get(dimm, k), entry[k]) \/ "unknown_constraint" \in DOMAIN entry

\* generation, module_ranks, chip_org: dimm.get(k) != entry[k]
FailsExact(dimm, entry, k) == ~PyEq(Get(dimm, k), entry[k])

\* manufacturer, part_number_contains, gskill_sticker_code:
\* str(entry[k]).lower() not in str(dimm.get(field, "")).lower()
FailsSubstringCI(dimm, entry, k, field) ==
  ~Contains(Lower(PyStr(GetOr(dimm, field, StrV("")))), Lower(PyStr(entry[k])))

\* dram_mfg, part_number_exact, crucial_sticker_suffix:
\* not isinstance(actual, str) or actual.lower() != str(entry[k]).lower()
FailsExactCI(dimm, entry, k, field) ==
  LET actual == Get(dimm, field)
  IN ~IsStr(actual) \/ Lower(actual.s) # Lower(PyStr(entry[k]))

\* module_gb: None fails; float(actual) != float(expected) fails; TypeError and
\* ValueError fail
FailsModuleGb(dimm, entry) ==
  LET actual == Get(dimm, "module_gb")
      fa == PyFloat(actual)
      fe == PyFloat(entry["module_gb"])
  IN \/ actual.t = "none"
     \/ ~fa.ok
     \/ ~fe.ok
     \/ fa.n # fe.n
     \/ fa.e # fe.e

\* timings_xmp: not (actual == expected or expected in actual)
FailsTimingsXmp(dimm, entry) ==
  LET expected == PyStr(entry["timings_xmp"])
      actual == PyStr(GetOr(dimm, "timings_xmp", StrV("")))
  IN ~(actual = expected \/ Contains(actual, expected))

\* timings_jdec: not isinstance(actual, str) or actual != expected
FailsTimingsJdec(dimm, entry) ==
  LET actual == Get(dimm, "timings_jdec")
  IN ~IsStr(actual) \/ actual.s # PyStr(entry["timings_jdec"])

\* voltage_xmp: None fails; str(actual) != expected fails
FailsVoltageXmp(dimm, entry) ==
  LET actual == Get(dimm, "voltage_xmp")
  IN actual.t = "none" \/ PyStr(actual) # PyStr(entry["voltage_xmp"])

\* corsair_version: a rule value ending in "." is a prefix, any other an exact value
FailsCorsairVersion(dimm, entry) ==
  LET expected == PyStr(entry["corsair_version"])
      actual == PyStr(GetOr(dimm, "corsair_version", StrV("")))
  IN IF EndsWith(expected, ".") THEN ~StartsWith(actual, expected)
     ELSE actual # expected

\* hynix_ic_parse_8th with no test of the type and the length of the IC part number
FailsHynix8th_AcceptsUnusable(dimm, entry) ==
  LET expected == Upper(PyStr(entry["hynix_ic_parse_8th"]))
      a == Get(dimm, "hynix_ic_part_number")
      b == Get(dimm, "Hynix IC Part Number")
      ic == IF Truthy(a) THEN a ELSE IF Truthy(b) THEN b ELSE Get(dimm, "hynix_ic_pn")
  IN IsStr(ic) /\ Len(ic.s) >= 8 /\ Upper(CharAt(ic.s, 8)) # expected

\* hynix_ic_parse_8th: the first truthy of three keys must be a str of 8 characters
\* or more whose 8th character, upper-cased, is the upper-cased rule value
FailsHynix8th(dimm, entry) ==
  LET expected == Upper(PyStr(entry["hynix_ic_parse_8th"]))
      a == Get(dimm, "hynix_ic_part_number")
      b == Get(dimm, "Hynix IC Part Number")
      ic == IF Truthy(a) THEN a ELSE IF Truthy(b) THEN b ELSE Get(dimm, "hynix_ic_pn")
  IN \/ ~IsStr(ic)
     \/ Len(ic.s) < 8
     \/ Upper(CharAt(ic.s, 8)) # expected

is_match(dimm, entry) ==
  LET has(k) == k \in DOMAIN entry
  IN IF has("generation") /\ FailsExact(dimm, entry, "generation") THEN FALSE
     ELSE IF has("manufacturer") /\ FailsSubstringCI(dimm, entry, "manufacturer", "manufacturer")
       THEN FALSE
     ELSE IF has("dram_mfg") /\ FailsExactCI(dimm, entry, "dram_mfg", "dram_mfg") THEN FALSE
     ELSE IF has("module_gb") /\ FailsModuleGb(dimm, entry) THEN FALSE
     ELSE IF has("module_ranks") /\ FailsExact(dimm, entry, "module_ranks") THEN FALSE
     ELSE IF has("chip_org") /\ FailsExact(dimm, entry, "chip_org") THEN FALSE
     ELSE IF has("part_number_contains") /\
             FailsSubstringCI(dimm, entry, "part_number_contains", "module_part_number")
       THEN FALSE
     ELSE IF has("part_number_exact") /\
             FailsExactCI(dimm, entry, "part_number_exact", "module_part_number")
       THEN FALSE
     ELSE IF has("timings_xmp") /\ FailsTimingsXmp(dimm, entry) THEN FALSE
     ELSE IF has("timings_jdec") /\ FailsTimingsJdec(dimm, entry) THEN FALSE
     ELSE IF has("voltage_xmp") /\ FailsVoltageXmp(dimm, entry) THEN FALSE
     ELSE IF has("corsair_version") /\ FailsCorsairVersion(dimm, entry) THEN FALSE
     ELSE IF has("gskill_sticker_code") /\
             FailsSubstringCI(dimm, entry, "gskill_sticker_code", "gskill_sticker_code")
       THEN FALSE
     ELSE IF has("crucial_sticker_suffix") /\
             FailsExactCI(dimm, entry, "crucial_sticker_suffix", "crucial_sticker_suffix")
       THEN FALSE
     ELSE IF has("hynix_ic_parse_8th") /\ FailsHynix8th(dimm, entry) THEN FALSE
     ELSE TRUE

(***************************************************************************)
(* load_database (RamSleuth_DB.py): the structural validation and the      *)
(* sort. A JSON document is [islist, items]; an element of its list is     *)
(* [isdict, d], d being the dict when the element is a JSON object.        *)
(***************************************************************************)

EmptyDict == << >>

\* isinstance(v, int): True for a bool too, bool being a subclass of int
IsInstanceInt(v) == v.t \in {"int", "bool"}

\* The ValueError checks of one element, in the order of the code.
EntryIsValid(raw) ==
  /\ raw.isdict
  /\ "priority" \in DOMAIN raw.d
  /\ IsInstanceInt(raw.d["priority"])
  /\ "die_type" \in DOMAIN raw.d
  /\ IsStr(raw.d["die_type"])
  /\ Strip(raw.d["die_type"].s) # ""

RECURSIVE Reverse(_)
Reverse(seq) == IF seq = << >> THEN << >> ELSE Reverse(Tail(seq)) \o <<Head(seq)>>

\* One element put into a list sorted by ascending priority, after every element
\* that is not greater: the stable order list.sort guarantees.
RECURSIVE InsertStable(_, _)
InsertStable(sorted, x) ==
  IF sorted = << >> THEN <<x>>
  ELSE IF x["priority"].n < Head(sorted)["priority"].n THEN <<x>> \o sorted
  ELSE <<Head(sorted)>> \o InsertStable(Tail(sorted), x)

RECURSIVE StableSortAscending(_)
StableSortAscending(seq) ==
  IF seq = << >> THEN << >>
  ELSE InsertStable(StableSortAscending(SubSeq(seq, 1, Len(seq) - 1)), seq[Len(seq)])

\* An ascending stable sort reversed: the elements of equal priority come out in
\* the reverse of their original order.
SortByPriority_ReversedAscending(validated) == Reverse(StableSortAscending(validated))

\* validated.sort(key=lambda e: e["priority"], reverse=True): list.sort reverses the
\* list, sorts it stably in ascending order and reverses it again, which keeps the
\* elements of equal key in their original order.
SortByPriority(validated) == Reverse(StableSortAscending(Reverse(validated)))

(***************************************************************************)
(* State.                                                                  *)
(***************************************************************************)
VARIABLES
  \* find_die_type: its arguments, its locals and what it returns
  dimm, db, fdt_pc, fdt_i, best_matches, best_priority, fdt_result,
  \* is_match: its arguments and what it returns
  im_dimm, im_entry, im_result,
  \* load_database: the parsed JSON document, the locals and what it returns
  document, ld_pc, ld_idx, validated, ld_result,
  \* parse_output: the lines of its argument, its locals and what it returns
  lines, po_pc, dimms_matrix, po_idx, saw_header, current_block_ids, pending_fields,
  dimms_plain, po_result,
  \* the calls of parse_output made on the text so far and what the first returned
  po_calls, po_first,
  \* normalize_dimm_data and its caller: the record as it was read, the record now,
  \* where the caller is, and what the calls made on the record returned
  nz_raw, nz_dimm, nz_pc, nz_norm, nz_again, nz_second,
  \* find_die_type called for several records over one database: the arguments as
  \* they were given, the database and the records now, and the locals and the
  \* result of each call
  cc_given, cc_db, cc_dimms, cc_local, cc_result,
  \* SettingsService: the configuration file, whether it can be written, the settings
  \* of the service in memory and the last call made on it
  ss_file, ss_writable, ss_settings, ss_last,
  \* the normalize-and-resolve passes of the pipeline over one record: the database,
  \* the record, the stage reached and what the most recent find_die_type returned
  pl_db, pl_dimm, pl_pc, pl_last

resolverVars == <<dimm, db, fdt_pc, fdt_i, best_matches, best_priority, fdt_result>>
matcherVars == <<im_dimm, im_entry, im_result>>
loaderVars == <<document, ld_pc, ld_idx, validated, ld_result>>
parserVars ==
  <<lines, po_pc, dimms_matrix, po_idx, saw_header, current_block_ids, pending_fields,
    dimms_plain, po_result, po_calls, po_first>>
normalizerVars == <<nz_raw, nz_dimm, nz_pc, nz_norm, nz_again, nz_second>>
sharedVars == <<cc_given, cc_db, cc_dimms, cc_local, cc_result>>
settingsVars == <<ss_file, ss_writable, ss_settings, ss_last>>
pipelineVars == <<pl_db, pl_dimm, pl_pc, pl_last>>
vars == <<resolverVars, matcherVars, loaderVars, parserVars, normalizerVars, sharedVars,
          settingsVars, pipelineVars>>

\* The state of a component no call is running in.
NoCall == [done |-> FALSE, value |-> FALSE]
ResolverIdle ==
  /\ dimm = EmptyDict /\ db = << >> /\ fdt_pc = "idle" /\ fdt_i = 0
  /\ best_matches = << >> /\ best_priority = NoneV
  /\ fdt_result = [die_type |-> NoneV, notes |-> NoneV]
MatcherIdle == im_dimm = EmptyDict /\ im_entry = EmptyDict /\ im_result = NoCall
LoaderIdle ==
  /\ document = [islist |-> TRUE, items |-> << >>] /\ ld_pc = "idle" /\ ld_idx = 0
  /\ validated = << >> /\ ld_result = << >>
ParserIdle ==
  /\ lines = << >> /\ po_pc = "idle" /\ dimms_matrix = << >> /\ po_idx = 0
  /\ saw_header = FALSE /\ current_block_ids = << >> /\ pending_fields = EmptyDict
  /\ dimms_plain = << >> /\ po_result = << >> /\ po_calls = 0 /\ po_first = << >>
\* What a call of normalize_dimm_data that was not made returned.
NotCalled == [done |-> FALSE, raised |-> FALSE, norm |-> EmptyDict]
NormalizerIdle ==
  /\ nz_raw = EmptyDict /\ nz_dimm = EmptyDict /\ nz_pc = "idle" /\ nz_norm = NotCalled
  /\ nz_again = NotCalled /\ nz_second = NotCalled
SharedIdle ==
  /\ cc_given = [db |-> << >>, dimms |-> << >>] /\ cc_db = << >> /\ cc_dimms = << >>
  /\ cc_local = << >> /\ cc_result = << >>
SettingsIdle ==
  /\ ss_file = [kind |-> "absent", doc |-> EmptyDict] /\ ss_writable = FALSE
  /\ ss_settings = EmptyDict /\ ss_last = [op |-> "none"]
PipelineIdle ==
  /\ pl_db = << >> /\ pl_dimm = EmptyDict /\ pl_pc = "idle"
  /\ pl_last = [die_type |-> NoneV, notes |-> NoneV]

(***************************************************************************)
(* Inputs of the resolver: records as normalize_dimm_data emits them and   *)
(* rule documents as die_database.json holds them.                         *)
(***************************************************************************)

\* The longest rule document.
MaxRules == 3

Rule(priority, die_type, constraints) ==
  ("priority" :> IntV(priority)) @@ ("die_type" :> StrV(die_type)) @@ constraints

Ddr4 == "generation" :> StrV("DDR4")
Ddr5 == "generation" :> StrV("DDR5")
Corsair == "manufacturer" :> StrV("Corsair")

\* Rules with concrete die type labels; "Unknown" and "Ambiguous" are verdicts of
\* the resolver, not labels of a rule.
RulePool ==
  { Rule(50, "A", Ddr4),
    Rule(50, "B", Ddr4 @@ Corsair),
    Rule(50, "A", Ddr4 @@ ("notes" :> StrV(" first "))),
    Rule(50, "A", "notes" :> StrV("second")),
    Rule(50, "A", Ddr4 @@ ("notes" :> StrV(""))),
    Rule(50, "a", "notes" :> StrV("  ")),
    Rule(100, "X", Ddr4),
    Rule(100, "X", Ddr5 @@ ("notes" :> NoneV)),
    Rule(50, "B", Corsair @@ ("notes" :> IntV(7))),
    Rule(10, "C", "notes" :> StrV("low")) }

RECURSIVE SeqsUpTo(_, _)
SeqsUpTo(S, n) ==
  IF n = 0 THEN {<< >>}
  ELSE LET shorter == SeqsUpTo(S, n - 1)
       IN shorter \cup {Append(q, x) : q \in {r \in shorter : Len(r) = n - 1}, x \in S}

RuleDocuments == SeqsUpTo(RulePool, MaxRules)

DimmPool ==
  { Ddr4 @@ Corsair,
    Ddr4,
    Ddr5 @@ Corsair,
    EmptyDict }

NoResult == [die_type |-> NoneV, notes |-> NoneV]

(***************************************************************************)
(* find_die_type (RamSleuth_DB.py): the scan over db, one entry a step,    *)
(* and the resolution of the best matches.                                 *)
(***************************************************************************)

\* The database is what load_database returned for a valid document.
ResolverInit ==
  /\ dimm \in DimmPool
  /\ db \in {SortByPriority(doc) : doc \in RuleDocuments}
  /\ fdt_pc = "scan"
  /\ fdt_i = 1
  /\ best_matches = << >>
  /\ best_priority = NoneV
  /\ fdt_result = NoResult
  /\ MatcherIdle /\ LoaderIdle /\ ParserIdle /\ NormalizerIdle /\ SharedIdle
  /\ SettingsIdle /\ PipelineIdle

\* if not is_match(dimm, entry): continue
FdtSkip ==
  /\ fdt_pc = "scan" /\ fdt_i <= Len(db)
  /\ ~is_match(dimm, db[fdt_i])
  /\ fdt_i' = fdt_i + 1
  /\ UNCHANGED <<dimm, db, fdt_pc, best_matches, best_priority, fdt_result>>
  /\ UNCHANGED <<matcherVars, loaderVars, parserVars, normalizerVars, sharedVars, settingsVars, pipelineVars>>

\* A scan that lets a later match of equal priority replace the best matches.
FdtReplace_OnEqualToo ==
  /\ fdt_pc = "scan" /\ fdt_i <= Len(db)
  /\ is_match(dimm, db[fdt_i])
  /\ best_priority.t = "none" \/ db[fdt_i]["priority"].n >= best_priority.n
  /\ best_priority' = db[fdt_i]["priority"]
  /\ best_matches' = <<db[fdt_i]>>
  /\ fdt_i' = fdt_i + 1
  /\ UNCHANGED <<dimm, db, fdt_pc, fdt_result>>
  /\ UNCHANGED <<matcherVars, loaderVars, parserVars, normalizerVars, sharedVars, settingsVars, pipelineVars>>

\* if best_priority is None or priority > best_priority
FdtReplace ==
  /\ fdt_pc = "scan" /\ fdt_i <= Len(db)
  /\ is_match(dimm, db[fdt_i])
  /\ best_priority.t = "none" \/ db[fdt_i]["priority"].n > best_priority.n
  /\ best_priority' = db[fdt_i]["priority"]
  /\ best_matches' = <<db[fdt_i]>>
  /\ fdt_i' = fdt_i + 1
  /\ UNCHANGED <<dimm, db, fdt_pc, fdt_result>>
  /\ UNCHANGED <<matcherVars, loaderVars, parserVars, normalizerVars, sharedVars, settingsVars, pipelineVars>>

\* An append at the wrong end of best_matches.
FdtAppend_Prepends ==
  /\ fdt_pc = "scan" /\ fdt_i <= Len(db)
  /\ is_match(dimm, db[fdt_i])
  /\ best_priority.t # "none" /\ db[fdt_i]["priority"].n = best_priority.n
  /\ best_matches' = <<db[fdt_i]>> \o best_matches
  /\ fdt_i' = fdt_i + 1
  /\ UNCHANGED <<dimm, db, fdt_pc, best_priority, fdt_result>>
  /\ UNCHANGED <<matcherVars, loaderVars, parserVars, normalizerVars, sharedVars, settingsVars, pipelineVars>>

\* elif priority == best_priority
FdtAppend ==
  /\ fdt_pc = "scan" /\ fdt_i <= Len(db)
  /\ is_match(dimm, db[fdt_i])
  /\ best_priority.t # "none" /\ db[fdt_i]["priority"].n = best_priority.n
  /\ best_matches' = Append(best_matches, db[fdt_i])
  /\ fdt_i' = fdt_i + 1
  /\ UNCHANGED <<dimm, db, fdt_pc, best_priority, fdt_result>>
  /\ UNCHANGED <<matcherVars, loaderVars, parserVars, normalizerVars, sharedVars, settingsVars, pipelineVars>>

\* A scan that keeps a matching entry of lower priority among the best matches.
FdtIgnore_KeepsLower ==
  /\ fdt_pc = "scan" /\ fdt_i <= Len(db)
  /\ is_match(dimm, db[fdt_i])
  /\ best_priority.t # "none" /\ db[fdt_i]["priority"].n < best_priority.n
  /\ best_matches' = Append(best_matches, db[fdt_i])
  /\ fdt_i' = fdt_i + 1
  /\ UNCHANGED <<dimm, db, fdt_pc, best_priority, fdt_result>>
  /\ UNCHANGED <<matcherVars, loaderVars, parserVars, normalizerVars, sharedVars, settingsVars, pipelineVars>>

\* priority < best_priority: the entry is ignored and the scan goes on
FdtIgnore ==
  /\ fdt_pc = "scan" /\ fdt_i <= Len(db)
  /\ is_match(dimm, db[fdt_i])
  /\ best_priority.t # "none" /\ db[fdt_i]["priority"].n < best_priority.n
  /\ fdt_i' = fdt_i + 1
  /\ UNCHANGED <<dimm, db, fdt_pc, best_matches, best_priority, fdt_result>>
  /\ UNCHANGED <<matcherVars, loaderVars, parserVars, normalizerVars, sharedVars, settingsVars, pipelineVars>>

\* notes_list: note.strip() of every str note with a character that is no white space
RECURSIVE NotesList(_)
NotesList(matches) ==
  IF matches = << >> THEN << >>
  ELSE LET note == Get(Head(matches), "notes")
       IN (IF IsStr(note) /\ Strip(note.s) # "" THEN <<Strip(note.s)>> ELSE << >>)
          \o NotesList(Tail(matches))

AmbiguousPrefix == "Multiple matching heuristics at same priority: "

\* A resolution that reports no match without its message.
Resolve_UnknownWithoutNotes(matches) ==
  IF matches = << >> THEN [die_type |-> StrV("Unknown"), notes |-> NoneV]
  ELSE IF Len(matches) = 1
    THEN [die_type |-> matches[1]["die_type"], notes |-> Get(matches[1], "notes")]
  ELSE [die_type |-> StrV("Ambiguous"), notes |-> NoneV]

\* A resolution that treats a single best match as it treats several of one
\* die_type: its notes stripped, and dropped when blank.
Resolve_SingleThroughNotesList(matches) ==
  LET die_types == SortedStrings({matches[j]["die_type"].s : j \in 1..Len(matches)})
      notes_list == NotesList(matches)
  IN IF matches = << >>
       THEN [die_type |-> StrV("Unknown"),
             notes |-> StrV("No heuristic match found in database.")]
     ELSE IF Len(die_types) = 1
       THEN [die_type |-> StrV(die_types[1]),
             notes |-> IF notes_list # << >> THEN StrV(Join(" | ", notes_list)) ELSE NoneV]
     ELSE [die_type |-> StrV("Ambiguous"),
           notes |-> StrV(AmbiguousPrefix \o Join(", ", die_types))]

\* What find_die_type returns for the best matches its scan collected.
Resolve(matches) ==
  LET die_types == SortedStrings({matches[j]["die_type"].s : j \in 1..Len(matches)})
      notes_list == NotesList(matches)
  IN IF matches = << >>
       THEN [die_type |-> StrV("Unknown"),
             notes |-> StrV("No heuristic match found in database.")]
     ELSE IF Len(matches) = 1
       THEN [die_type |-> matches[1]["die_type"], notes |-> Get(matches[1], "notes")]
     ELSE IF Len(die_types) = 1
       THEN [die_type |-> StrV(die_types[1]),
             notes |-> IF notes_list # << >> THEN StrV(Join(" | ", notes_list)) ELSE NoneV]
     ELSE [die_type |-> StrV("Ambiguous"),
           notes |-> StrV(AmbiguousPrefix \o Join(", ", die_types))]

\* The loop of find_die_type from the entry at i on: the best matches at its end.
RECURSIVE ScanFrom(_, _, _, _, _)
ScanFrom(d, database, i, matches, priority) ==
  IF i > Len(database) THEN matches
  ELSE IF ~is_match(d, database[i]) THEN ScanFrom(d, database, i + 1, matches, priority)
  ELSE IF priority.t = "none" \/ database[i]["priority"].n > priority.n
    THEN ScanFrom(d, database, i + 1, <<database[i]>>, database[i]["priority"])
  ELSE IF database[i]["priority"].n = priority.n
    THEN ScanFrom(d, database, i + 1, Append(matches, database[i]), priority)
  ELSE ScanFrom(d, database, i + 1, matches, priority)

\* find_die_type(dimm, db) as one call
find_die_type(d, database) == Resolve(ScanFrom(d, database, 1, << >>, NoneV))

FdtReturn ==
  /\ fdt_pc = "scan" /\ fdt_i > Len(db)
  /\ fdt_result' = Resolve(best_matches)
  /\ fdt_pc' = "done"
  /\ UNCHANGED <<dimm, db, fdt_i, best_matches, best_priority>>
  /\ UNCHANGED <<matcherVars, loaderVars, parserVars, normalizerVars, sharedVars, settingsVars, pipelineVars>>

ResolverNext == FdtSkip \/ FdtReplace \/ FdtAppend \/ FdtIgnore \/ FdtReturn

ResolverSpec == ResolverInit /\ [][ResolverNext]_vars

(***************************************************************************)
(* Claims about find_die_type, stated over the database and the record,    *)
(* not over the locals of the scan.                                        *)
(***************************************************************************)

FdtDone == fdt_pc = "done"

\* The positions of db whose rule the record matches.
MatchingRules == {j \in 1..Len(db) : is_match(dimm, db[j])}

\* Those of them whose priority no matching rule exceeds.
TiedBest ==
  {j \in MatchingRules : \A k \in MatchingRules : db[k]["priority"].n <= db[j]["priority"].n}

TiedDieTypes == {db[j]["die_type"].s : j \in TiedBest}

\* The rules at the positions J, in the order of db.
RECURSIVE RulesAt(_)
RulesAt(J) ==
  IF J = {} THEN << >>
  ELSE LET first == CHOOSE j \in J : \A k \in J : j <= k
       IN <<db[first]>> \o RulesAt(J \ {first})

\* C1 (priority monotonicity): when the record matches rules of different
\* priorities, the die_type returned is never taken from the lower one: it is the
\* die_type the matching rules of maximum priority share, or "Ambiguous" when they
\* disagree.
C1_PriorityMonotonicity ==
  (FdtDone /\ MatchingRules # {}) =>
    IF Cardinality(TiedDieTypes) = 1
    THEN fdt_result.die_type.s \in TiedDieTypes
    ELSE fdt_result.die_type = StrV("Ambiguous")

\* A record matching a rule A and a rule B of lower priority and another die_type,
\* classified with A's die_type.
C1_Witness ==
  /\ FdtDone
  /\ \E a, b \in MatchingRules :
       /\ db[a]["priority"].n > db[b]["priority"].n
       /\ db[a]["die_type"] # db[b]["die_type"]
       /\ fdt_result.die_type = db[a]["die_type"]

\* q lists the strings of S once each, in ascending lexicographic order.
IsSortedListing(q, S) ==
  /\ Len(q) = Cardinality(S)
  /\ {q[i] : i \in 1..Len(q)} = S
  /\ \A i, j \in 1..Len(q) : i < j => StrLess(q[i], q[j])

\* C2 (ambiguity invariant): when two matching rules tied at the best priority have
\* different die_types, the result is "Ambiguous" and its notes are "Multiple
\* matching heuristics at same priority: " followed by the distinct die_types of
\* the tied rules, each once, in ascending lexicographic order, joined by ", ".
C2_AmbiguityInvariant ==
  (FdtDone /\ Cardinality(TiedDieTypes) >= 2) =>
    /\ fdt_result.die_type = StrV("Ambiguous")
    /\ \E q \in [1..Cardinality(TiedDieTypes) -> TiedDieTypes] :
         /\ IsSortedListing(q, TiedDieTypes)
         /\ fdt_result.notes =
              StrV("Multiple matching heuristics at same priority: " \o Join(", ", q))

\* Three rules tied at priority 50, two of die_type A and one of B: "A, B".
C2_Witness ==
  /\ FdtDone
  /\ Cardinality(TiedBest) = 3
  /\ TiedDieTypes = {"A", "B"}
  /\ fdt_result = [die_type |-> StrV("Ambiguous"),
                   notes |-> StrV("Multiple matching heuristics at same priority: A, B")]

UnknownResult ==
  [die_type |-> StrV("Unknown"), notes |-> StrV("No heuristic match found in database.")]

C4_SingleBestMatch ==
  /\ (FdtDone /\ Cardinality(TiedBest) = 1) =>
       \A j \in TiedBest :
         fdt_result = [die_type |-> db[j]["die_type"],
                       notes |-> IF "notes" \in DOMAIN db[j] THEN db[j]["notes"] ELSE NoneV]
  /\ (FdtDone /\ db = <<Rule(100, "X", Ddr4)>> /\ dimm = Ddr4) =>
       fdt_result = [die_type |-> StrV("X"), notes |-> NoneV]

\* One best rule with notes, and a matching rule of lower priority below it.
C4_Witness ==
  /\ FdtDone
  /\ Cardinality(TiedBest) = 1
  /\ Cardinality(MatchingRules) >= 2
  /\ \E j \in TiedBest : "notes" \in DOMAIN db[j] /\ fdt_result.notes = StrV(" first ")

\* The notes values of the rules, in order (None for a rule without the key).
NotesValues(rules) == [i \in 1..Len(rules) |-> Get(rules[i], "notes")]

NonEmptyNote(note) == IsStr(note) /\ note.s # ""
NonBlankNote(note) == IsStr(note) /\ Strip(note.s) # ""

\* C5 as claimed: several rules tied at the best priority with one die_type give
\* that die_type and the non-empty notes of the tied rules, in database order,
\* joined by " | " (None when no tied rule has non-empty notes).
C5_NotesJoinedAsClaimed ==
  (FdtDone /\ Cardinality(TiedBest) >= 2 /\ Cardinality(TiedDieTypes) = 1) =>
    LET kept == SelectSeq(NotesValues(RulesAt(TiedBest)), NonEmptyNote)
        notes == [i \in 1..Len(kept) |-> kept[i].s]
    IN /\ fdt_result.die_type.s \in TiedDieTypes
       /\ fdt_result.notes = IF notes = << >> THEN NoneV ELSE StrV(Join(" | ", notes))

\* C5 as amended: the notes joined are those of the tied rules that are strings
\* with a character that is no white space, each stripped of its leading and
\* trailing white space, in database order, joined by " | "; None when no tied rule
\* has such notes.
C5_NotesJoinedStripped ==
  (FdtDone /\ Cardinality(TiedBest) >= 2 /\ Cardinality(TiedDieTypes) = 1) =>
    LET kept == SelectSeq(NotesValues(RulesAt(TiedBest)), NonBlankNote)
        notes == [i \in 1..Len(kept) |-> Strip(kept[i].s)]
    IN /\ fdt_result.die_type.s \in TiedDieTypes
       /\ fdt_result.notes = IF notes = << >> THEN NoneV ELSE StrV(Join(" | ", notes))

\* Three tied rules of die_type A: notes " first ", no notes, notes "second".
C5_Witness ==
  /\ FdtDone
  /\ Cardinality(TiedBest) = 3
  /\ TiedDieTypes = {"A"}
  /\ fdt_result = [die_type |-> StrV("A"), notes |-> StrV("first | second")]

(***************************************************************************)
(* Inputs of is_match: rules of up to MaxConstraints constraints, with and *)
(* without keys that are no constraint, and records with every field, with *)
(* none, and with fields that hold None.                                   *)
(***************************************************************************)

\* The most constraint keys on one rule.
MaxConstraints == 2

RecognizedKeys ==
  { "generation", "manufacturer", "dram_mfg", "module_gb", "module_ranks", "chip_org",
    "part_number_contains", "part_number_exact", "timings_xmp", "timings_jdec",
    "voltage_xmp", "corsair_version", "gskill_sticker_code", "crucial_sticker_suffix",
    "hynix_ic_parse_8th" }

ConstraintPool ==
  { <<"generation", StrV("DDR4")>>, <<"generation", StrV("DDR5")>>, <<"generation", NoneV>>,
    <<"manufacturer", StrV("corsair")>>, <<"manufacturer", StrV("G.Skill")>>,
    <<"manufacturer", StrV("")>>,
    <<"dram_mfg", StrV("sk hynix")>>, <<"dram_mfg", StrV("Samsung")>>,
    <<"module_gb", IntV(16)>>, <<"module_gb", FloatV(16, 0)>>, <<"module_gb", IntV(32)>>,
    <<"module_gb", StrV("sixteen")>>,
    <<"module_ranks", StrV("2R")>>, <<"module_ranks", StrV("1R")>>,
    <<"chip_org", StrV("x8")>>, <<"chip_org", StrV("x16")>>,
    <<"part_number_contains", StrV("3200C16")>>, <<"part_number_contains", StrV("9999")>>,
    <<"part_number_exact", StrV("cmk16gx4m2b3200c16")>>,
    <<"part_number_exact", StrV("F4-3600C16D-16GTZ")>>,
    <<"timings_xmp", StrV("3200-16")>>, <<"timings_xmp", StrV("3600-16")>>,
    <<"timings_xmp", StrV("")>>,
    <<"timings_jdec", StrV("2133-15-15-15")>>, <<"timings_jdec", StrV("2400-16-16-16")>>,
    <<"voltage_xmp", StrV("1.35")>>, <<"voltage_xmp", FloatV(135, 2)>>,
    <<"voltage_xmp", StrV("1.40")>>,
    <<"corsair_version", StrV("4.32")>>, <<"corsair_version", StrV("4.")>>,
    <<"corsair_version", StrV("3.")>>, <<"corsair_version", StrV("")>>,
    <<"gskill_sticker_code", StrV("21a")>>, <<"gskill_sticker_code", StrV("ZZZ")>>,
    <<"crucial_sticker_suffix", StrV(".m8fe1")>>, <<"crucial_sticker_suffix", StrV(".M8FE2")>>,
    <<"hynix_ic_parse_8th", StrV("G")>>, <<"hynix_ic_parse_8th", StrV("g")>>,
    <<"hynix_ic_parse_8th", StrV("B")>> }

\* The dict of a set of (key, value) pairs with distinct keys.
DictOf(pairs) ==
  [k \in {p[1] : p \in pairs} |-> (CHOOSE p \in pairs : p[1] = k)[2]]

\* The sets of at most n pairs of P with distinct keys.
RECURSIVE PairSetsUpTo(_, _)
PairSetsUpTo(P, n) ==
  IF n = 0 THEN {{}}
  ELSE LET smaller == PairSetsUpTo(P, n - 1)
       IN smaller \cup
          UNION {{C \cup {p} : p \in {q \in P : \A c \in C : c[1] # q[1]}} : C \in smaller}

ConstraintSets == PairSetsUpTo(ConstraintPool, MaxConstraints)

\* The keys of a rule that are no constraint: the required two, and optionally
\* notes and a key is_match does not know.
OtherKeys ==
  { Rule(100, "X", EmptyDict),
    Rule(100, "X", ("notes" :> StrV("a note")) @@ ("unknown_constraint" :> StrV("foo"))) }

EntryPool == {DictOf(C) @@ other : C \in ConstraintSets, other \in OtherKeys}

\* base_dimm of the tests, with its sticker fields filled in.
BaseDimm ==
  ("generation" :> StrV("DDR4")) @@ ("manufacturer" :> StrV("Corsair")) @@
  ("dram_mfg" :> StrV("SK Hynix")) @@ ("module_gb" :> IntV(16)) @@
  ("module_ranks" :> StrV("2R")) @@ ("chip_org" :> StrV("x8")) @@
  ("module_part_number" :> StrV("CMK16GX4M2B3200C16")) @@
  ("timings_xmp" :> StrV("3200-16-18-18")) @@ ("timings_jdec" :> StrV("2133-15-15-15")) @@
  ("voltage_xmp" :> StrV("1.35")) @@ ("corsair_version" :> StrV("4.32")) @@
  ("gskill_sticker_code" :> StrV("ABC21A")) @@ ("crucial_sticker_suffix" :> StrV(".M8FE1")) @@
  ("hynix_ic_part_number" :> StrV("H5CG48AGBDX018"))

MatchDimmPool ==
  { BaseDimm,
    EmptyDict,
    \* a record of another kit: a capacity kept as text, a float voltage, the raw
    \* IC key, and no manufacturer, part number or XMP timings
    ("generation" :> StrV("DDR5")) @@ ("dram_mfg" :> StrV("Samsung")) @@
      ("module_gb" :> StrV("16")) @@ ("module_ranks" :> StrV("1R")) @@
      ("chip_org" :> StrV("x16")) @@ ("voltage_xmp" :> FloatV(135, 2)) @@
      ("corsair_version" :> StrV("3.31")) @@ ("Hynix IC Part Number" :> StrV("H5CG48AG")),
    \* fields that are present and hold None or an empty or short text
    ("generation" :> NoneV) @@ ("manufacturer" :> NoneV) @@ ("module_gb" :> NoneV) @@
      ("module_part_number" :> StrV("")) @@ ("timings_xmp" :> NoneV) @@
      ("corsair_version" :> StrV("")) @@ ("hynix_ic_part_number" :> NoneV) @@
      ("hynix_ic_pn" :> StrV("H5CG48A")),
    \* an IC part number that is a number of eight digits, not text
    ("generation" :> StrV("DDR4")) @@ ("dram_mfg" :> StrV("SK Hynix")) @@
      ("hynix_ic_part_number" :> IntV(12345678)) }

MatcherInit ==
  /\ im_dimm \in MatchDimmPool
  /\ im_entry \in EntryPool
  /\ im_result = NoCall
  /\ ResolverIdle /\ LoaderIdle /\ ParserIdle /\ NormalizerIdle /\ SharedIdle
  /\ SettingsIdle /\ PipelineIdle

\* result = is_match(dimm, entry)
CallIsMatch ==
  /\ ~im_result.done
  /\ im_result' = [done |-> TRUE, value |-> is_match(im_dimm, im_entry)]
  /\ UNCHANGED <<im_dimm, im_entry>>
  /\ UNCHANGED <<resolverVars, loaderVars, parserVars, normalizerVars, sharedVars, settingsVars, pipelineVars>>

MatcherNext == CallIsMatch

MatcherSpec == MatcherInit /\ [][MatcherNext]_vars

(***************************************************************************)
(* Claims about is_match.                                                  *)
(***************************************************************************)

\* The entry with only its keys in K.
Restrict(f, K) == [k \in (DOMAIN f) \cap K |-> f[k]]

PresentConstraints == (DOMAIN im_entry) \cap RecognizedKeys

\* C6: is_match(record, rule) is true iff every recognized constraint key present
\* on the rule, taken alone, evaluates true against the record; a rule with no
\* recognized constraint key matches every record; and the keys of the rule that
\* are no recognized constraint (priority, die_type, notes, an unknown key) never
\* change the result.
C6_MatchIsConjunction ==
  im_result.done =>
    /\ im_result.value =
         (\A k \in PresentConstraints : is_match(im_dimm, Restrict(im_entry, {k})))
    /\ PresentConstraints = {} => im_result.value
    /\ im_result.value = is_match(im_dimm, Restrict(im_entry, RecognizedKeys))

\* A rule with two constraints, notes and an unknown key, which the record matches.
C6_Witness ==
  /\ im_result.done
  /\ im_result.value
  /\ Cardinality(PresentConstraints) = 2
  /\ {"notes", "unknown_constraint"} \subseteq DOMAIN im_entry

\* The fields of the record the test of constraint key k reads.
FieldsRead(k) ==
  CASE k \in {"part_number_contains", "part_number_exact"} -> {"module_part_number"}
    [] k = "hynix_ic_parse_8th" ->
         {"hynix_ic_part_number", "Hynix IC Part Number", "hynix_ic_pn"}
    [] OTHER -> {k}

\* C7 (missing fields fail constraints): for every recognized constraint key
\* present on a rule, if the record lacks the field that constraint reads, is_match
\* returns false for that rule, whatever the rule's value.
C7_MissingFieldFails ==
  im_result.done =>
    \A k \in PresentConstraints :
      (FieldsRead(k) \cap DOMAIN im_dimm = {}) => ~im_result.value

(***************************************************************************)
(* load_database as a state machine: the check of the top level, the       *)
(* validation loop (one element a step, a ValueError at the first element  *)
(* that fails) and the sort. Inputs: JSON documents of up to MaxDocLen     *)
(* elements, and a document that is no list.                               *)
(***************************************************************************)

\* The longest JSON array.
MaxDocLen == 3

Object(d) == [isdict |-> TRUE, d |-> d]
\* An element that is no JSON object (a string, a number, a list).
NotAnObject == [isdict |-> FALSE, d |-> EmptyDict]

ElementPool ==
  { Object(Rule(1, "A", EmptyDict)),
    Object(Rule(2, "A", Ddr4 @@ ("notes" :> StrV(" first ")))),
    Object(Rule(2, "B", "unknown_constraint" :> StrV("foo"))),
    Object(Rule(3, "C", Corsair)),
    NotAnObject,
    \* priority missing, text, a float, null, and the JSON boolean true
    Object("die_type" :> StrV("A")),
    Object(("priority" :> StrV("2")) @@ ("die_type" :> StrV("A"))),
    Object(("priority" :> FloatV(2, 0)) @@ ("die_type" :> StrV("A"))),
    Object(("priority" :> NoneV) @@ ("die_type" :> StrV("A"))),
    Object(("priority" :> BoolV(TRUE)) @@ ("die_type" :> StrV("D"))),
    \* die_type missing, a number, empty and blank
    Object("priority" :> IntV(2)),
    Object(("priority" :> IntV(2)) @@ ("die_type" :> IntV(5))),
    Object(("priority" :> IntV(2)) @@ ("die_type" :> StrV(""))),
    Object(("priority" :> IntV(2)) @@ ("die_type" :> StrV("  "))) }

DocumentPool ==
  {[islist |-> TRUE, items |-> q] : q \in SeqsUpTo(ElementPool, MaxDocLen)}
    \cup {[islist |-> FALSE, items |-> << >>]}

LoaderInit ==
  /\ document \in DocumentPool
  /\ ld_pc = "start"
  /\ ld_idx = 1
  /\ validated = << >>
  /\ ld_result = << >>
  /\ ResolverIdle /\ MatcherIdle /\ ParserIdle /\ NormalizerIdle /\ SharedIdle
  /\ SettingsIdle /\ PipelineIdle

\* if not isinstance(data, list): raise ValueError
LoadRejectDocument ==
  /\ ld_pc = "start"
  /\ ~document.islist
  /\ ld_pc' = "raised"
  /\ UNCHANGED <<document, ld_idx, validated, ld_result>>
  /\ UNCHANGED <<resolverVars, matcherVars, parserVars, normalizerVars, sharedVars, settingsVars, pipelineVars>>

LoadEnterLoop ==
  /\ ld_pc = "start"
  /\ document.islist
  /\ ld_pc' = "validate"
  /\ UNCHANGED <<document, ld_idx, validated, ld_result>>
  /\ UNCHANGED <<resolverVars, matcherVars, parserVars, normalizerVars, sharedVars, settingsVars, pipelineVars>>

\* validated.append(raw)
LoadAcceptEntry ==
  /\ ld_pc = "validate" /\ ld_idx <= Len(document.items)
  /\ EntryIsValid(document.items[ld_idx])
  /\ validated' = Append(validated, document.items[ld_idx].d)
  /\ ld_idx' = ld_idx + 1
  /\ UNCHANGED <<document, ld_pc, ld_result>>
  /\ UNCHANGED <<resolverVars, matcherVars, parserVars, normalizerVars, sharedVars, settingsVars, pipelineVars>>

\* raise ValueError(f"Entry {idx} ...")
LoadRejectEntry ==
  /\ ld_pc = "validate" /\ ld_idx <= Len(document.items)
  /\ ~EntryIsValid(document.items[ld_idx])
  /\ ld_pc' = "raised"
  /\ UNCHANGED <<document, ld_idx, validated, ld_result>>
  /\ UNCHANGED <<resolverVars, matcherVars, parserVars, normalizerVars, sharedVars, settingsVars, pipelineVars>>

\* validated.sort(...); return validated
LoadSortAndReturn ==
  /\ ld_pc = "validate" /\ ld_idx > Len(document.items)
  /\ ld_result' = SortByPriority(validated)
  /\ ld_pc' = "returned"
  /\ UNCHANGED <<document, ld_idx, validated>>
  /\ UNCHANGED <<resolverVars, matcherVars, parserVars, normalizerVars, sharedVars, settingsVars, pipelineVars>>

LoaderNext ==
  \/ LoadRejectDocument
  \/ LoadEnterLoop
  \/ LoadAcceptEntry
  \/ LoadRejectEntry
  \/ LoadSortAndReturn

LoaderSpec == LoaderInit /\ [][LoaderNext]_vars

(***************************************************************************)
(* Claims about load_database.                                             *)
(***************************************************************************)

LoadFinished == ld_pc \in {"raised", "returned"}

\* The structural faults the claim lists. A die_type of white space alone counts
\* as empty here, as it does in the loader's own error message.
ClaimedFault(raw) ==
  \/ ~raw.isdict
  \/ "priority" \notin DOMAIN raw.d
  \/ raw.d["priority"].t # "int"
  \/ "die_type" \notin DOMAIN raw.d
  \/ ~IsStr(raw.d["die_type"])
  \/ Strip(raw.d["die_type"].s) = ""

ClaimedMalformed ==
  \/ ~document.islist
  \/ \E i \in 1..Len(document.items) : ClaimedFault(document.items[i])

\* How many times x occurs in seq.
Count(seq, x) == Cardinality({i \in 1..Len(seq) : seq[i] = x})

\* C8: load_database fails with a ValueError, returning no database, if the top
\* level is no list, or an element is no object, or an element lacks priority or
\* has a priority that is no integer, or lacks die_type or has a die_type that is
\* no non-empty string; otherwise it returns every element of the document with
\* all of its keys unchanged.
C8_StructuralValidation ==
  LoadFinished =>
    IF ClaimedMalformed
    THEN ld_pc = "raised" /\ ld_result = << >>
    ELSE /\ ld_pc = "returned"
         /\ Len(ld_result) = Len(document.items)
         /\ \A i \in 1..Len(document.items) :
              Count(ld_result, document.items[i].d) =
                Cardinality({j \in 1..Len(document.items) :
                               document.items[j].d = document.items[i].d})

\* pi maps the positions of the returned list to those of the document.
IsStableDescending(pi) ==
  /\ \A i \in 1..Len(ld_result) : ld_result[i] = document.items[pi[i]].d
  /\ \A i, j \in 1..Len(ld_result) : i # j => pi[i] # pi[j]
  /\ \A i, j \in 1..Len(ld_result) :
       i < j =>
         \/ ld_result[i]["priority"].n > ld_result[j]["priority"].n
         \/ /\ ld_result[i]["priority"].n = ld_result[j]["priority"].n
            /\ pi[i] < pi[j]

\* C9: the list load_database returns is a permutation of the document's elements
\* sorted by priority descending, and stable: two rules of equal priority keep
\* their relative order from the document.
C9_StableDescendingSort ==
  ld_pc = "returned" =>
    /\ Len(ld_result) = Len(document.items)
    /\ \E pi \in [1..Len(ld_result) -> 1..Len(document.items)] : IsStableDescending(pi)

\* A document whose rule of priority 1 comes first and whose two distinct rules of
\* priority 2 come back in their document order, before it.
C9_Witness ==
  /\ ld_pc = "returned"
  /\ Len(document.items) = 3
  /\ document.items[1].d["priority"].n = 1
  /\ ld_result = <<document.items[2].d, document.items[3].d, document.items[1].d>>
  /\ document.items[2].d["priority"] = document.items[3].d["priority"]
  /\ document.items[2] # document.items[3]

(***************************************************************************)
(* parse_output (ramsleuth_pkg/parser.py): the text of the decoder as the  *)
(* list of its lines, a record as a dict from field names to str.          *)
(***************************************************************************)

\* d[k] = v on a copy of the dict d
Put(d, k, v) == (k :> v) @@ d

\* d.setdefault(k, v)
SetDefault(d, k, v) == IF k \in DOMAIN d THEN d ELSE Put(d, k, v)

\* The first place at or after i where p occurs in s, 0 when there is none.
RECURSIVE FindFrom(_, _, _)
FindFrom(s, p, i) ==
  IF i + Len(p) - 1 > Len(s) THEN 0
  ELSE IF SubSeq(s, i, i + Len(p) - 1) = p THEN i
  ELSE FindFrom(s, p, i + 1)

\* s.find(p) + 1: where p first occurs in s, 0 when it does not
Find(s, p) == FindFrom(s, p, 1)

\* s.split(sep)
RECURSIVE Split(_, _)
Split(s, sep) ==
  LET i == Find(s, sep)
  IN IF i = 0 THEN <<s>>
     ELSE <<SubSeq(s, 1, i - 1)>> \o Split(SubSeq(s, i + Len(sep), Len(s)), sep)

\* s.split(sep, 1)
SplitOnce(s, sep) ==
  LET i == Find(s, sep)
  IN IF i = 0 THEN <<s>>
     ELSE <<SubSeq(s, 1, i - 1), SubSeq(s, i + Len(sep), Len(s))>>

\* [p.strip() for p in s.split("|")]
StrippedParts(s) == LET ps == Split(s, "|") IN [i \in 1..Len(ps) |-> Strip(ps[i])]

\* s.rstrip(":")
RECURSIVE RStripColons(_)
RStripColons(s) ==
  IF s # "" /\ CharAt(s, Len(s)) = ":" THEN RStripColons(SubSeq(s, 1, Len(s) - 1)) ELSE s

\* The lengths of the longest prefix of s made of white space, of digits, and of
\* characters that are not white space.
RECURSIVE SpaceRun(_)
SpaceRun(s) == IF s # "" /\ IsSpaceChar(CharAt(s, 1)) THEN 1 + SpaceRun(Tail(s)) ELSE 0

RECURSIVE DigitRun(_)
DigitRun(s) == IF s # "" /\ IsDigitChar(CharAt(s, 1)) THEN 1 + DigitRun(Tail(s)) ELSE 0

RECURSIVE WordRun(_)
WordRun(s) == IF s # "" /\ ~IsSpaceChar(CharAt(s, 1)) THEN 1 + WordRun(Tail(s)) ELSE 0

\* s.split(): the runs of characters that are not white space
RECURSIVE SplitWhitespace(_)
SplitWhitespace(s) ==
  LET t == LStrip(s)
      n == WordRun(t)
  IN IF t = "" THEN << >>
     ELSE <<SubSeq(t, 1, n)>> \o SplitWhitespace(SubSeq(t, n + 1, Len(t)))

\* s.replace(" ", "-")
RECURSIVE DashSpaces(_)
DashSpaces(s) ==
  IF s = "" THEN ""
  ELSE (IF CharAt(s, 1) = " " THEN "-" ELSE CharAt(s, 1)) \o DashSpaces(Tail(s))

\* The length of the match of (bank|dimm)\s*\d+ at the start of s, 0 for no match.
SlotMatchLen(s) ==
  IF StartsWith(s, "bank") \/ StartsWith(s, "dimm")
  THEN LET rest == SubSeq(s, 5, Len(s))
           sp == SpaceRun(rest)
           dg == DigitRun(SubSeq(rest, sp + 1, Len(rest)))
       IN IF dg > 0 THEN 4 + sp + dg ELSE 0
  ELSE 0

\* re.search(r"(bank|dimm)\s*\d+", s).group(0): the leftmost match, "" for None
RECURSIVE SearchSlot(_)
SearchSlot(s) ==
  IF s = "" THEN ""
  ELSE IF SlotMatchLen(s) > 0 THEN SubSeq(s, 1, SlotMatchLen(s))
  ELSE SearchSlot(Tail(s))

\* re.search(r"(\d+)", s).group(1): the leftmost run of digits, "" for None
RECURSIVE SearchDigits(_)
SearchDigits(s) ==
  IF s = "" THEN ""
  ELSE IF DigitRun(s) > 0 THEN SubSeq(s, 1, DigitRun(s))
  ELSE SearchDigits(Tail(s))

\* re.search(r"(\d+)$", s).group(1) of a str with no line break: the digits s ends
\* with, "" for None
RECURSIVE TrailingDigits(_)
TrailingDigits(s) ==
  IF s # "" /\ IsDigitChar(CharAt(s, Len(s)))
  THEN TrailingDigits(SubSeq(s, 1, Len(s) - 1)) \o CharAt(s, Len(s))
  ELSE ""

\* infer_timings(speed_mt, generation)
infer_timings(speed_mt, generation) ==
  LET gen == Upper(generation)
  IN IF Contains(gen, "DDR4")
     THEN IF speed_mt >= 3200 THEN "CL22-22-22"
          ELSE IF speed_mt >= 2933 THEN "CL21-21-21"
          ELSE IF speed_mt >= 2666 THEN "CL19-19-19"
          ELSE IF speed_mt >= 2400 THEN "CL17-17-17"
          ELSE IF speed_mt >= 2133 THEN "CL15-15-15"
          ELSE "Unknown"
     ELSE IF Contains(gen, "DDR5")
     THEN IF speed_mt >= 6400 THEN "CL52-52-52"
          ELSE IF speed_mt >= 6000 THEN "CL48-48-48"
          ELSE IF speed_mt >= 5600 THEN "CL46-46-46"
          ELSE IF speed_mt >= 5200 THEN "CL42-42-42"
          ELSE IF speed_mt >= 4800 THEN "CL40-39-39"
          ELSE "Unknown"
     ELSE IF Contains(gen, "DDR3")
     THEN IF speed_mt >= 1866 THEN "CL13-13-13"
          ELSE IF speed_mt >= 1600 THEN "CL11-11-11"
          ELSE IF speed_mt >= 1333 THEN "CL9-9-9"
          ELSE IF speed_mt >= 1066 THEN "CL7-7-7"
          ELSE "Unknown"
     ELSE "Unknown"

(***************************************************************************)
(* The matrix branch of parse_output: the header row fixes the columns,    *)
(* every later row with a label writes one field of every column's record. *)
(***************************************************************************)

\* The test of the header scan on one line: a "|" row whose first column starts
\* with "field" and one of whose other columns contains "dimm".
IsMatrixHeader(line) ==
  /\ Contains(line, "|")
  /\ LET parts == StrippedParts(line)
     IN /\ Len(parts) >= 2
        /\ StartsWith(Lower(parts[1]), "field")
        /\ \E i \in 2..Len(parts) : Contains(Lower(parts[i]), "dimm")

\* header_index + 1: the first header row of the lines ls, 0 when there is none
HeaderIndex(ls) ==
  IF \E i \in 1..Len(ls) : IsMatrixHeader(ls[i])
  THEN CHOOSE i \in 1..Len(ls) :
         /\ IsMatrixHeader(ls[i])
         /\ \A j \in 1..(i - 1) : ~IsMatrixHeader(ls[j])
  ELSE 0

\* A line at which the row loop of the matrix branch stops.
EndsMatrix(line) ==
  StartsWith(LStrip(line), "Decoding EEPROM") \/ StartsWith(LStrip(line), "SPD data for")

\* The rows the matrix branch reads: the lines after the header, up to the first
\* block marker.
RECURSIVE RowsUntilBlock(_)
RowsUntilBlock(ls) ==
  IF ls = << >> \/ EndsMatrix(ls[1]) THEN << >>
  ELSE <<ls[1]>> \o RowsUntilBlock(Tail(ls))

noise_labels == {"noise", "random garbage line not using pipes at all", ""}

\* The canonical key of a row label.
CanonicalKey(label_raw) ==
  LET label_lower == Lower(label_raw)
  IN IF label_lower \in {"size/capacity", "module capacity", "module size"} THEN "module_gb"
     ELSE IF Contains(label_lower, "module manufacturer") THEN "manufacturer"
     ELSE IF label_lower = "dram manufacturer" THEN "dram_mfg"
     ELSE IF label_lower = "part number" THEN "module_part_number"
     ELSE IF label_lower = "fundamental memory type" THEN "generation"
     ELSE IF label_lower = "module nominal voltage" THEN "JEDEC_voltage"
     ELSE IF label_lower = "minimum voltage" THEN "min_voltage"
     ELSE IF label_lower = "maximum voltage" THEN "max_voltage"
     ELSE IF label_lower = "configured voltage" THEN "configured_voltage"
     ELSE IF label_lower = "configured memory speed" \/ label_lower = "configured speed"
          THEN "configured_speed"
     ELSE IF label_lower = "ranks" \/ Contains(label_lower, "number of ranks")
          THEN "module_ranks"
     ELSE IF label_lower = "sdram device width" THEN "SDRAM Device Width"
     ELSE IF label_lower = "guessing dimm is in" THEN "Guessing DIMM is in"
     ELSE IF label_lower = "jedec timings" THEN "JEDEC Timings"
     ELSE IF label_lower = "additional jedec timings malformed"
          THEN "Additional JEDEC Timings malformed"
     ELSE IF label_raw = "Malformed Line With Too Many Columns"
          THEN "Malformed Line With Too Many Columns"
     ELSE IF label_lower = "pmic manufacturer" THEN "PMIC Manufacturer"
     ELSE IF label_lower = "hynix ic part number" THEN "Hynix IC Part Number"
     ELSE label_raw

\* The values of a row, padded with "" or cut to dimm_count cells.
PadOrTruncate(values, dimm_count) ==
  [i \in 1..dimm_count |-> IF i <= Len(values) THEN values[i] ELSE ""]

\* A write that stores an empty cell too.
SetCell_StoresEmpty(d, canonical_key, raw_val) == Put(d, canonical_key, Strip(raw_val))

\* The write of one cell into the record of its column: nothing for an empty cell,
\* the slot too for a "Guessing DIMM is in" row.
SetCell(d, canonical_key, raw_val) ==
  LET val == Strip(raw_val)
  IN IF val = "" THEN d
     ELSE IF canonical_key = "Guessing DIMM is in"
          THEN Put(Put(d, "Guessing DIMM is in", val), "slot", val)
     ELSE Put(d, canonical_key, val)

\* One pass of the row loop: the records of the columns after the row.
MatrixRow(dimms, line) ==
  IF ~Contains(line, "|") THEN dimms
  ELSE
    LET parts == StrippedParts(line)
        label_raw == RStripColons(Strip(parts[1]))
        label_lower == Lower(label_raw)
        dimm_count == Len(dimms)
        values == PadOrTruncate(Tail(parts), dimm_count)
        canonical_key == CanonicalKey(label_raw)
        written == [i \in 1..dimm_count |-> SetCell(dimms[i], canonical_key, values[i])]
        first == IF label_lower = "additional jedec timings malformed"
                 THEN [i \in 1..dimm_count |->
                         SetDefault(written[i], "Additional JEDEC Timings malformed", "")]
                 ELSE written
    IN IF Len(parts) < 2 THEN dimms
       ELSE IF label_raw = "" \/ StartsWith(label_raw, "#") THEN dimms
       ELSE IF label_lower \in noise_labels THEN dimms
       ELSE IF label_raw = "Malformed Line With Too Many Columns"
            THEN [i \in 1..dimm_count |->
                    SetDefault(first[i], "Malformed Line With Too Many Columns", "")]
       ELSE first

RECURSIVE MatrixRows(_, _)
MatrixRows(dimms, rows) ==
  IF rows = << >> THEN dimms ELSE MatrixRows(MatrixRow(dimms, rows[1]), Tail(rows))

\* [d for d in dimms if d]
NonEmptyDict(d) == DOMAIN d # {}

\* dimms_matrix of the text: no record without a header row, else the records of
\* the columns that some row wrote to.
MatrixParse(ls) ==
  LET h == HeaderIndex(ls)
      dimm_count == Len(StrippedParts(ls[h])) - 1
      dimms == [i \in 1..dimm_count |-> EmptyDict]
  IN IF h = 0 THEN << >>
     ELSE SelectSeq(MatrixRows(dimms, RowsUntilBlock(SubSeq(ls, h + 1, Len(ls)))),
                    NonEmptyDict)

(***************************************************************************)
(* The plain-text branch of parse_output: the helpers of the line loop.    *)
(***************************************************************************)

\* _normalize_slot_string(slot_val)
normalize_slot_string(slot_val) == Join(" ", SplitWhitespace(Lower(slot_val)))

\* _derive_slots_from_guess(raw_val)
derive_slots_from_guess(raw_val) ==
  LET normalized == normalize_slot_string(raw_val)
  IN IF normalized = "" THEN << >>
     ELSE IF Contains(normalized, "bank 3") /\ Contains(normalized, "bank 4")
          THEN <<"bank 3", "bank 4">>
     ELSE IF SearchSlot(normalized) # "" THEN <<SearchSlot(normalized)>>
     ELSE <<raw_val>>

\* The record _commit_block writes for one slot of the block.
SlotRecord(pending, slot) ==
  LET d == Put(pending, "slot", slot)
  IN IF "Guessing DIMM is in" \in DOMAIN d THEN Put(d, "Guessing DIMM is in", slot) ELSE d

\* A commit that puts the records of a block before those of the earlier blocks.
commit_block_Prepends(ids, pending, plain) ==
  IF DOMAIN pending = {}
  THEN [ids |-> << >>, pending |-> pending, plain |-> plain]
  ELSE IF ids = << >>
  THEN [ids |-> ids, pending |-> EmptyDict, plain |-> plain]
  ELSE [ids |-> << >>, pending |-> EmptyDict,
        plain |-> [i \in 1..Len(ids) |-> SlotRecord(pending, ids[i])] \o plain]

\* A commit that keeps a block without slots, as a record of a made-up slot.
commit_block_KeepsSlotless(ids, pending, plain) ==
  IF DOMAIN pending = {}
  THEN [ids |-> << >>, pending |-> pending, plain |-> plain]
  ELSE IF ids = << >>
  THEN [ids |-> ids, pending |-> EmptyDict,
        plain |-> Append(plain, Put(pending, "slot", "unknown"))]
  ELSE [ids |-> << >>, pending |-> EmptyDict,
        plain |-> plain \o [i \in 1..Len(ids) |-> SlotRecord(pending, ids[i])]]

\* _commit_block(): the three variables it shares with the line loop, after it.
commit_block(ids, pending, plain) ==
  IF DOMAIN pending = {}
  THEN [ids |-> << >>, pending |-> pending, plain |-> plain]
  ELSE IF ids = << >>
  THEN [ids |-> ids, pending |-> EmptyDict, plain |-> plain]
  ELSE [ids |-> << >>, pending |-> EmptyDict,
        plain |-> plain \o [i \in 1..Len(ids) |-> SlotRecord(pending, ids[i])]]

\* The line starts a block.
IsBlockStart(line) == StartsWith(Strip(line), "Decoding EEPROM")

\* key and val of a line that holds a double space
PlainKey(line) == RStripColons(Strip(SplitOnce(line, "  ")[1]))
PlainVal(line) == Strip(SplitOnce(line, "  ")[2])

noise_keys == {"Noise", "Debug", "Random garbage line not using pipes at all"}

\* The line loop passes over the line: it is blank, or it is no block start and
\* comes before the first one, has no double space, lacks a key or a value, or has
\* a noise key.
IsIgnored(line, saw) ==
  IF Strip(line) = "" THEN TRUE
  ELSE IF IsBlockStart(line) THEN FALSE
  ELSE IF ~saw THEN TRUE
  ELSE IF ~Contains(line, "  ") THEN TRUE
  ELSE IF PlainKey(line) = "" THEN TRUE
  ELSE IF PlainVal(line) = "" THEN TRUE
  ELSE PlainKey(line) \in noise_keys

\* The branch of the field chain that takes the key, in the order of the chain.
FieldBranch(key, val) ==
  LET kl == Lower(key)
  IN IF Contains(kl, "fundamental memory type") \/ Contains(kl, "memory type")
       THEN "generation"
     ELSE IF Contains(kl, "module manufacturer") \/ Contains(kl, "module mfg")
       THEN "manufacturer"
     ELSE IF Contains(kl, "dram manufacturer") THEN "dram_mfg"
     ELSE IF (Contains(kl, "size") \/ Contains(kl, "capacity")) /\
             (Contains(Lower(val), "mb") \/ Contains(Lower(val), "gb"))
       THEN "module_gb"
     ELSE IF kl = "ranks" \/ StartsWith(kl, "ranks ") THEN "module_ranks"
     ELSE IF Contains(kl, "sdram device width") THEN "SDRAM Device Width"
     ELSE IF Contains(kl, "module nominal voltage") THEN "JEDEC_voltage"
     ELSE IF Contains(kl, "minimum voltage") THEN "min_voltage"
     ELSE IF Contains(kl, "maximum voltage") THEN "max_voltage"
     ELSE IF Contains(kl, "configured voltage") THEN "configured_voltage"
     ELSE IF Contains(kl, "configured memory speed") \/ Contains(kl, "configured speed")
       THEN "configured_speed"
     ELSE IF Contains(kl, "part number") THEN "module_part_number"
     ELSE IF Contains(kl, "xmp timings") THEN "timings_xmp"
     ELSE IF Contains(kl, "guessing dimm is in") THEN "guess"
     ELSE "other"

\* The xmp timings branch: "DDR4-3600 18-22-22" is stored as "3600-18-22-22", a
\* value of another shape is not stored.
StoreXmpTimings(pending, val) ==
  LET xmp_val == Strip(val)
      parts == SplitOnce(xmp_val, " ")
      freq == TrailingDigits(parts[1])
      timing == DashSpaces(Strip(parts[2]))
  IN IF Contains(xmp_val, " ") /\ freq # ""
     THEN Put(pending, "timings_xmp", freq \o "-" \o timing)
     ELSE pending

\* pending_fields after a field line, for every branch but the guess one.
StoreField(pending, key, val) ==
  LET b == FieldBranch(key, val)
  IN IF b = "module_gb" THEN Put(Put(pending, "Module Capacity", val), "module_gb", val)
     ELSE IF b = "module_ranks" THEN Put(Put(pending, "Ranks", val), "module_ranks", val)
     ELSE IF b = "timings_xmp" THEN StoreXmpTimings(pending, val)
     ELSE IF b = "other" THEN Put(pending, key, val)
     ELSE Put(pending, b, val)

(***************************************************************************)
(* The merge of the two branches and the defaults of every record.         *)
(***************************************************************************)

\* The slots of the records of a list.
SlotsOf(ds) == {GetOr(ds[i], "slot", "") : i \in 1..Len(ds)}

\* A merge in which the last record of a slot replaces the one kept before it.
RECURSIVE MergeBySlot_LastWins(_, _)
MergeBySlot_LastWins(result, ds) ==
  IF ds = << >> THEN result
  ELSE LET slot == GetOr(ds[1], "slot", "")
       IN IF slot = "" THEN MergeBySlot_LastWins(result, Tail(ds))
          ELSE IF slot \in SlotsOf(result)
          THEN MergeBySlot_LastWins(
                 [i \in 1..Len(result) |->
                    IF GetOr(result[i], "slot", "") = slot THEN ds[1] ELSE result[i]],
                 Tail(ds))
          ELSE MergeBySlot_LastWins(Append(result, ds[1]), Tail(ds))

\* The two loops over dimms_matrix and dimms_plain: a record is kept when it has a
\* slot and no record kept before it has the same one.
RECURSIVE MergeBySlot(_, _)
MergeBySlot(result, ds) ==
  IF ds = << >> THEN result
  ELSE LET slot == GetOr(ds[1], "slot", "")
       IN IF slot # "" /\ slot \notin SlotsOf(result)
          THEN MergeBySlot(Append(result, ds[1]), Tail(ds))
          ELSE MergeBySlot(result, Tail(ds))

\* A last loop that leaves the records as the merge found them.
WithDefaults_AddsNothing(d) == d

\* The last loop on one record: the two diagnostic keys, then the inferred timings.
WithDefaults(d) ==
  LET d2 == SetDefault(SetDefault(d, "Additional JEDEC Timings malformed", ""),
                       "Malformed Line With Too Many Columns", "")
      conf_speed == GetOr(d2, "configured_speed", "")
      generation == GetOr(d2, "generation", "")
      digits == SearchDigits(conf_speed)
  IN IF conf_speed # "" /\ generation # "" /\ "timings" \notin DOMAIN d2 /\ digits # ""
     THEN Put(d2, "timings", infer_timings(DigitsToNat(digits), generation))
     ELSE d2

(***************************************************************************)
(* parse_output as a state machine: the matrix branch in one step, the     *)
(* line loop of the plain branch one line a step, then the merge.          *)
(***************************************************************************)

\* The longest text, in lines.
MaxLines == 5

\* Lines of decode-dimms output: a matrix header with two columns, a row of slots
\* and a row shorter than the header, a block marker, guess lines that name the
\* banks 3 and 4 and the banks 1 and 2, and a field line.
LinePool ==
  { "Field | DIMM 0 | DIMM 1",
    "Guessing DIMM is in | bank 3 | bank 4",
    "Part Number | PN-A",
    "Decoding EEPROM 5-0052",
    "Guessing DIMM is in  bank 3   bank 4",
    "Guessing DIMM is in  bank 1 bank 2",
    "Part Number  EX1" }

\* raw_output.splitlines() of the texts of at most MaxLines lines
TextPool == SeqsUpTo(LinePool, MaxLines)

\* The state at the entry of parse_output, for a text of a given set.
ParserStart(texts) ==
  /\ lines \in texts
  /\ po_pc = "start"
  /\ dimms_matrix = << >>
  /\ po_idx = 1
  /\ saw_header = FALSE
  /\ current_block_ids = << >>
  /\ pending_fields = EmptyDict
  /\ dimms_plain = << >>
  /\ po_result = << >>
  /\ po_calls = 1
  /\ po_first = << >>
  /\ ResolverIdle /\ MatcherIdle /\ LoaderIdle /\ NormalizerIdle /\ SharedIdle
  /\ SettingsIdle /\ PipelineIdle

ParserInit == ParserStart(TextPool)

\* if not lines: return []
PoReturnEmpty ==
  /\ po_pc = "start"
  /\ lines = << >>
  /\ po_pc' = "done"
  /\ po_result' = << >>
  /\ UNCHANGED <<lines, dimms_matrix, po_idx, saw_header, current_block_ids,
                 pending_fields, dimms_plain>>
  /\ UNCHANGED <<po_calls, po_first, resolverVars, matcherVars, loaderVars, normalizerVars, sharedVars, settingsVars, pipelineVars>>

\* The header scan and the matrix branch.
PoMatrix ==
  /\ po_pc = "start"
  /\ lines # << >>
  /\ dimms_matrix' = MatrixParse(lines)
  /\ po_pc' = "plain"
  /\ UNCHANGED <<lines, po_idx, saw_header, current_block_ids, pending_fields,
                 dimms_plain, po_result>>
  /\ UNCHANGED <<po_calls, po_first, resolverVars, matcherVars, loaderVars, normalizerVars, sharedVars, settingsVars, pipelineVars>>

\* The line loop on a line it passes over.
PoIgnoreLine ==
  /\ po_pc = "plain"
  /\ po_idx <= Len(lines)
  /\ IsIgnored(lines[po_idx], saw_header)
  /\ po_idx' = po_idx + 1
  /\ UNCHANGED <<lines, po_pc, dimms_matrix, saw_header, current_block_ids,
                 pending_fields, dimms_plain, po_result>>
  /\ UNCHANGED <<po_calls, po_first, resolverVars, matcherVars, loaderVars, normalizerVars, sharedVars, settingsVars, pipelineVars>>

\* The line loop on a "Decoding EEPROM" line: the block before it is committed and
\* a new one starts.
PoBlockStart ==
  /\ po_pc = "plain"
  /\ po_idx <= Len(lines)
  /\ IsBlockStart(lines[po_idx])
  /\ dimms_plain' = commit_block(current_block_ids, pending_fields, dimms_plain).plain
  /\ saw_header' = TRUE
  /\ current_block_ids' = << >>
  /\ pending_fields' = EmptyDict
  /\ po_idx' = po_idx + 1
  /\ UNCHANGED <<lines, po_pc, dimms_matrix, po_result>>
  /\ UNCHANGED <<po_calls, po_first, resolverVars, matcherVars, loaderVars, normalizerVars, sharedVars, settingsVars, pipelineVars>>

\* The line loop on a key and value line of a block, the guess line apart.
PoFieldLine ==
  /\ po_pc = "plain"
  /\ po_idx <= Len(lines)
  /\ ~IsIgnored(lines[po_idx], saw_header)
  /\ ~IsBlockStart(lines[po_idx])
  /\ LET key == PlainKey(lines[po_idx])
         val == PlainVal(lines[po_idx])
     IN /\ FieldBranch(key, val) # "guess"
        /\ pending_fields' = StoreField(pending_fields, key, val)
  /\ po_idx' = po_idx + 1
  /\ UNCHANGED <<lines, po_pc, dimms_matrix, saw_header, current_block_ids,
                 dimms_plain, po_result>>
  /\ UNCHANGED <<po_calls, po_first, resolverVars, matcherVars, loaderVars, normalizerVars, sharedVars, settingsVars, pipelineVars>>

\* The line loop on a "Guessing DIMM is in" line of a block: the slots of the
\* block are derived from its value.
PoGuessLine ==
  /\ po_pc = "plain"
  /\ po_idx <= Len(lines)
  /\ ~IsIgnored(lines[po_idx], saw_header)
  /\ ~IsBlockStart(lines[po_idx])
  /\ LET key == PlainKey(lines[po_idx])
         val == PlainVal(lines[po_idx])
     IN /\ FieldBranch(key, val) = "guess"
        /\ current_block_ids' = derive_slots_from_guess(val)
        /\ pending_fields' = Put(pending_fields, "Guessing DIMM is in", val)
  /\ po_idx' = po_idx + 1
  /\ UNCHANGED <<lines, po_pc, dimms_matrix, saw_header, dimms_plain, po_result>>
  /\ UNCHANGED <<po_calls, po_first, resolverVars, matcherVars, loaderVars, normalizerVars, sharedVars, settingsVars, pipelineVars>>

\* The commit of the trailing block at the end of the text.
PoCommitAtEof ==
  /\ po_pc = "plain"
  /\ po_idx > Len(lines)
  /\ LET c == commit_block(current_block_ids, pending_fields, dimms_plain)
     IN /\ current_block_ids' = c.ids
        /\ pending_fields' = c.pending
        /\ dimms_plain' = c.plain
  /\ po_pc' = "merge"
  /\ UNCHANGED <<lines, dimms_matrix, po_idx, saw_header, po_result>>
  /\ UNCHANGED <<po_calls, po_first, resolverVars, matcherVars, loaderVars, normalizerVars, sharedVars, settingsVars, pipelineVars>>

\* The merge by slot, matrix records first, the defaults of every record kept, and
\* the return.
PoMergeAndReturn ==
  /\ po_pc = "merge"
  /\ LET merged == MergeBySlot(MergeBySlot(<< >>, dimms_matrix), dimms_plain)
     IN po_result' = [i \in 1..Len(merged) |-> WithDefaults(merged[i])]
  /\ po_pc' = "done"
  /\ UNCHANGED <<lines, dimms_matrix, po_idx, saw_header, current_block_ids,
                 pending_fields, dimms_plain>>
  /\ UNCHANGED <<po_calls, po_first, resolverVars, matcherVars, loaderVars, normalizerVars, sharedVars, settingsVars, pipelineVars>>

ParserNext ==
  \/ PoReturnEmpty
  \/ PoMatrix
  \/ PoIgnoreLine
  \/ PoBlockStart
  \/ PoFieldLine
  \/ PoGuessLine
  \/ PoCommitAtEof
  \/ PoMergeAndReturn

ParserSpec == ParserInit /\ [][ParserNext]_vars

(***************************************************************************)
(* parse_output on texts with noise lines and diagnostic lines.            *)
(***************************************************************************)

\* The longest text with noise, in lines.
MaxNoisyLines == 4

\* A matrix header, a row of slots, a diagnostic row with a value for the first
\* column only and a noise row; a block marker, a guess line, and a noise line
\* and a diagnostic line of a block.
NoisyLinePool ==
  { "Field | DIMM 0 | DIMM 1",
    "Guessing DIMM is in | bank 3 | bank 4",
    "Additional JEDEC Timings malformed | 9-9",
    "Noise | a | b",
    "Decoding EEPROM 5-0052",
    "Guessing DIMM is in  bank 1 bank 2",
    "Noise  x",
    "Malformed Line With Too Many Columns  a b" }

NoisyInit == ParserStart(SeqsUpTo(NoisyLinePool, MaxNoisyLines))

NoisySpec == NoisyInit /\ [][ParserNext]_vars

(***************************************************************************)
(* Two calls of parse_output on one text: every local of the function is   *)
(* bound anew by the second call, the module keeps nothing between calls.  *)
(***************************************************************************)

\* The longest text parsed twice, in lines.
MaxLinesTwice == 4

ParserTwiceInit ==
  /\ ParserInit
  /\ Len(lines) <= MaxLinesTwice

\* A second call that finds saw_header as the first call left it.
PoCallAgain_KeepsSawHeader ==
  /\ po_pc = "done"
  /\ po_calls = 1
  /\ po_calls' = 2
  /\ po_first' = po_result
  /\ po_pc' = "start"
  /\ dimms_matrix' = << >>
  /\ po_idx' = 1
  /\ current_block_ids' = << >>
  /\ pending_fields' = EmptyDict
  /\ dimms_plain' = << >>
  /\ po_result' = << >>
  /\ UNCHANGED <<lines, saw_header, resolverVars, matcherVars, loaderVars, normalizerVars, sharedVars, settingsVars, pipelineVars>>

\* The second call, on the same text.
PoCallAgain ==
  /\ po_pc = "done"
  /\ po_calls = 1
  /\ po_calls' = 2
  /\ po_first' = po_result
  /\ po_pc' = "start"
  /\ dimms_matrix' = << >>
  /\ po_idx' = 1
  /\ saw_header' = FALSE
  /\ current_block_ids' = << >>
  /\ pending_fields' = EmptyDict
  /\ dimms_plain' = << >>
  /\ po_result' = << >>
  /\ UNCHANGED <<lines, resolverVars, matcherVars, loaderVars, normalizerVars, sharedVars, settingsVars, pipelineVars>>

ParserTwiceNext == ParserNext \/ PoCallAgain

ParserTwiceSpec == ParserTwiceInit /\ [][ParserTwiceNext]_vars

(***************************************************************************)
(* Claims about parse_output, stated over the text and the result.         *)
(***************************************************************************)

ParseDone == po_pc = "done"

\* The lines that start a block, and the lines of the block of such a line: those
\* after it, up to the next block start.
BlockStarts == {i \in 1..Len(lines) : IsBlockStart(lines[i])}
BlockLines(i) ==
  {j \in (i + 1)..Len(lines) : \A k \in (i + 1)..j : ~IsBlockStart(lines[k])}

\* A "Guessing DIMM is in" line with a value.
IsGuess(line) ==
  /\ Contains(line, "  ")
  /\ Lower(PlainKey(line)) = "guessing dimm is in"
  /\ PlainVal(line) # ""

GuessLinesOf(i) == {j \in BlockLines(i) : IsGuess(lines[j])}

\* The banks a guess value names: each word "bank" followed by a number.
BanksNamed(val) ==
  LET w == SplitWhitespace(Lower(val))
  IN {w[k] \o " " \o w[k + 1] :
        k \in {n \in 1..(Len(w) - 1) : w[n] = "bank" /\ AllDigits(w[n + 1])}}

\* The records of the result with a given slot.
RecordsWithSlot(slot) == {i \in 1..Len(po_result) : GetOr(po_result[i], "slot", "") = slot}

\* A block with one guess line, which names two banks, and with no "SPD data for"
\* line inside it.
FansOut(i, j) ==
  /\ GuessLinesOf(i) = {j}
  /\ \A k \in BlockLines(i) : ~StartsWith(Strip(lines[k]), "SPD data for")
  /\ Cardinality(BanksNamed(PlainVal(lines[j]))) = 2

\* C10: a plain-text block whose "Guessing DIMM is in" value names two banks gives
\* the result two records, one with each bank as its slot, and no record of the
\* result has a slot that contains both banks.
C10_FanOutPerBank ==
  ParseDone =>
    \A i \in BlockStarts : \A j \in BlockLines(i) :
      FansOut(i, j) =>
        LET banks == BanksNamed(PlainVal(lines[j]))
        IN /\ \A b \in banks : Cardinality(RecordsWithSlot(b)) = 1
           /\ \A r \in 1..Len(po_result) :
                \E b \in banks : ~Contains(GetOr(po_result[r], "slot", ""), b)

\* The slot of a record, "" for a record without one.
SlotOf(d) == GetOr(d, "slot", "")

\* The keys the last loop of parse_output can add to a record.
AddedKeys ==
  {"Additional JEDEC Timings malformed", "Malformed Line With Too Many Columns", "timings"}

\* The record r of the result is the record d of one of the two branches: it has
\* the fields of d with their values, and beside them only added keys.
IsOutputOf(r, d) ==
  /\ DOMAIN d \subseteq DOMAIN r
  /\ \A k \in DOMAIN d : r[k] = d[k]
  /\ (DOMAIN r) \ (DOMAIN d) \subseteq AddedKeys

\* The slots both branches produced.
SharedSlots == (SlotsOf(dimms_matrix) \cap SlotsOf(dimms_plain)) \ {""}

LastGuessOf(i) == LET G == GuessLinesOf(i) IN CHOOSE j \in G : \A k \in G : k <= j
BlockSlots(i) ==
  LET G == GuessLinesOf(i)
  IN IF G = {} THEN << >>
     ELSE derive_slots_from_guess(PlainVal(lines[CHOOSE j \in G : \A k \in G : k <= j]))

\* The place of a slot among the columns of the matrix, 0 for a slot of no column.
MatrixPos(slot) ==
  IF slot \in SlotsOf(dimms_matrix)
  THEN CHOOSE m \in 1..Len(dimms_matrix) :
         /\ SlotOf(dimms_matrix[m]) = slot
         /\ \A k \in 1..(m - 1) : SlotOf(dimms_matrix[k]) # slot
  ELSE 0

\* The blocks of the text, each with its slots.
SlotsByBlock == {<<i, BlockSlots(i)>> : i \in BlockStarts}

\* The blocks that name a slot, among blocks given with their slots, and the place
\* of the slot in the text: the first such block, then the place of the slot among
\* the slots of that block.
BlocksNaming(blocks, slot) ==
  {p[1] : p \in {q \in blocks : \E n \in 1..Len(q[2]) : q[2][n] = slot}}
FirstBlockNaming(blocks, slot) ==
  LET naming == BlocksNaming(blocks, slot) IN CHOOSE i \in naming : \A k \in naming : i <= k
PlaceInBlock(blocks, slot, i) ==
  LET bs == (CHOOSE p \in blocks : p[1] = i)[2]
  IN CHOOSE n \in 1..Len(bs) : bs[n] = slot /\ \A k \in 1..(n - 1) : bs[k] # slot

\* The slot a comes before the slot b in the plain branch.
PlainBefore(blocks, a, b) ==
  /\ BlocksNaming(blocks, a) # {} /\ BlocksNaming(blocks, b) # {}
  /\ LET first_a == FirstBlockNaming(blocks, a)
         first_b == FirstBlockNaming(blocks, b)
     IN \/ first_a < first_b
        \/ /\ first_a = first_b
           /\ PlaceInBlock(blocks, a, first_a) < PlaceInBlock(blocks, b, first_b)

\* C12: in the result the records of the matrix come first, in column order, then
\* the records of the blocks, in the order of the blocks in the text and, within a
\* block, in the order of its slots.
C12_OutputOrdering ==
  ParseDone =>
    LET blocks == SlotsByBlock
    IN \A a, b \in 1..Len(po_result) :
         a < b =>
           LET sa == SlotOf(po_result[a])
               sb == SlotOf(po_result[b])
           IN IF MatrixPos(sb) # 0
              THEN MatrixPos(sa) # 0 /\ MatrixPos(sa) < MatrixPos(sb)
              ELSE MatrixPos(sa) # 0 \/ PlainBefore(blocks, sa, sb)

\* Two records of one block followed by a record of a later block.
C12_Witness ==
  /\ ParseDone
  /\ LET blocks == SlotsByBlock
         first(r) == FirstBlockNaming(blocks, SlotOf(po_result[r]))
     IN \E a, b, c \in 1..Len(po_result) :
          /\ a < b /\ b < c
          /\ MatrixPos(SlotOf(po_result[a])) = 0
          /\ first(a) = first(b)
          /\ first(b) < first(c)

FieldLinesOf(i) ==
  {j \in BlockLines(i) :
     ~IsIgnored(lines[j], TRUE) /\ FieldBranch(PlainKey(lines[j]), PlainVal(lines[j])) # "guess"}
KeysOfLine(j) == DOMAIN StoreField(EmptyDict, PlainKey(lines[j]), PlainVal(lines[j]))
BlockKeys(i) == UNION {KeysOfLine(j) : j \in FieldLinesOf(i)}

\* The records of the result that come from the plain branch.
PlainResults == {r \in 1..Len(po_result) : MatrixPos(SlotOf(po_result[r])) = 0}

\* C14: a block without a guess line gives the result no record and no field:
\* every record of the plain branch has the slot of a block with a guess line, and
\* beside its slot only fields that the lines of that block store.
C14_SlotlessBlockDiscarded ==
  ParseDone =>
    LET blocks == SlotsByBlock
    IN \A r \in PlainResults :
         LET slot == SlotOf(po_result[r])
         IN /\ BlocksNaming(blocks, slot) # {}
            /\ (DOMAIN po_result[r]) \ (AddedKeys \cup {"slot", "Guessing DIMM is in"})
                 \subseteq BlockKeys(FirstBlockNaming(blocks, slot))

\* A block with a field line and no guess line, followed by a block that gives
\* the result a record.
C14_Witness ==
  /\ ParseDone
  /\ \E i \in BlockStarts :
       /\ GuessLinesOf(i) = {}
       /\ FieldLinesOf(i) # {}
       /\ \E r \in PlainResults :
            /\ BlocksNaming(SlotsByBlock, SlotOf(po_result[r])) # {}
            /\ i < FirstBlockNaming(SlotsByBlock, SlotOf(po_result[r]))

\* The data columns of the header row of the text.
HeaderColumns == Len(StrippedParts(lines[HeaderIndex(lines)])) - 1

\* The records of the result that come from the matrix branch.
MatrixResults == {r \in 1..Len(po_result) : MatrixPos(SlotOf(po_result[r])) # 0}

\* C15: when the text has a header row with k data columns, and rows that write
\* to a column, the result holds k records of the matrix, one for each column.
C15_OneRecordPerColumn ==
  (ParseDone /\ HeaderIndex(lines) # 0 /\ MatrixParse(lines) # << >>) =>
    Cardinality(MatrixResults) = HeaderColumns

DiagnosticKeys ==
  {"Additional JEDEC Timings malformed", "Malformed Line With Too Many Columns"}

\* C16: every record of the result has the two diagnostic keys, with the empty
\* string unless a line of the text gives the key that value, and no record has a
\* noise key.
C16_DiagnosticKeysNoNoise ==
  ParseDone =>
    \A r \in 1..Len(po_result) :
      /\ DiagnosticKeys \subseteq DOMAIN po_result[r]
      /\ \A k \in DiagnosticKeys :
           po_result[r][k] # "" =>
             \E j \in 1..Len(lines) :
               Contains(lines[j], k) /\ Contains(lines[j], po_result[r][k])
      /\ "Noise" \notin DOMAIN po_result[r]
      /\ "Random garbage line not using pipes at all" \notin DOMAIN po_result[r]

\* A text with a noise line and a diagnostic line: one record with the value of
\* the line, one with the empty string.
C16_Witness ==
  /\ ParseDone
  /\ \E j \in 1..Len(lines) : StartsWith(lines[j], "Noise")
  /\ \E a, b \in 1..Len(po_result) :
       /\ DiagnosticKeys \subseteq DOMAIN po_result[a]
       /\ DiagnosticKeys \subseteq DOMAIN po_result[b]
       /\ po_result[a]["Additional JEDEC Timings malformed"] = "9-9"
       /\ po_result[b]["Additional JEDEC Timings malformed"] = ""

(***************************************************************************)
(* normalize_dimm_data (RamSleuth_DB.py): the helpers. A raw record and a  *)
(* normalized one are dicts of Python values; None is NoneV.               *)
(***************************************************************************)

\* F(x) with x, the value of a local variable of the code, computed once.
WithValue(x, F(_)) == CHOOSE r \in {F(y) : y \in {x}} : TRUE

\* a or b
PyOr(a, b) == WithValue(a, LAMBDA x : IF Truthy(x) THEN x ELSE b)

\* s.replace("-", "")
RECURSIVE DropDashes(_)
DropDashes(s) ==
  IF s = "" THEN ""
  ELSE (IF CharAt(s, 1) = "-" THEN "" ELSE CharAt(s, 1)) \o DropDashes(Tail(s))

\* The length of the match of \d+(?:\.\d+)? at the start of s, 0 for no match.
NumberPrefixLen(s) ==
  WithValue(DigitRun(s), LAMBDA d1 :
    IF d1 = 0 THEN 0
    ELSE IF d1 + 1 < Len(s) /\ CharAt(s, d1 + 1) = "." /\
            DigitRun(SubSeq(s, d1 + 2, Len(s))) > 0
      THEN d1 + 1 + DigitRun(SubSeq(s, d1 + 2, Len(s)))
    ELSE d1)

\* re.match(r"^\s*(\d+(?:\.\d+)?)\s*<unit>\s*$", s).group(1), "" for None
NumberWithUnit(s, unit) ==
  WithValue(LStrip(s), LAMBDA t :
    WithValue(NumberPrefixLen(t), LAMBDA n :
      IF n > 0 /\ Strip(SubSeq(t, n + 1, Len(t))) = unit THEN SubSeq(t, 1, n) ELSE ""))

\* re.fullmatch(r"\d+(?:\.\d+)?", s)
IsPlainNumber(s) == s # "" /\ NumberPrefixLen(s) = Len(s)

\* The float m / 10^x with the zeros at the end of its fraction dropped.
RECURSIVE NormFloat(_, _)
NormFloat(m, x) == IF x > 0 /\ m % 10 = 0 THEN NormFloat(m \div 10, x - 1) ELSE FloatV(m, x)

\* The float m / 10^x divided by 2^k
RECURSIVE HalveTimes(_, _, _)
HalveTimes(m, x, k) ==
  IF k = 0 THEN NormFloat(m, x)
  ELSE IF m % 2 = 0 THEN HalveTimes(m \div 2, x, k - 1)
  ELSE HalveTimes(m * 5, x + 1, k - 1)

\* v / 1024.0 for a float v
DivideBy1024(v) == HalveTimes(v.n, v.e, 10)

\* float(v) of a number or of the text of a number: the float, and whether the call
\* raised.
ToFloat(v) ==
  WithValue(PyFloat(v), LAMBDA f :
    [raised |-> ~f.ok, value |-> IF f.ok THEN NormFloat(f.n, f.e) ELSE NoneV])

\* A normalizer of the generation that knows no plain "DDR".
normalize_generation_NoPlainDdr(value) ==
  IF ~Truthy(value) THEN NoneV
  ELSE
    WithValue(Upper(Strip(PyStr(value))), LAMBDA s :
      IF ~StartsWith(s, "DDR") THEN NoneV
      ELSE WithValue(DropDashes(SplitWhitespace(s)[1]), LAMBDA core :
             IF core \in {"DDR1", "DDR2", "DDR3", "DDR4", "DDR5"} THEN StrV(core)
             ELSE NoneV))

\* _normalize_generation(value)
normalize_generation(value) ==
  IF ~Truthy(value) THEN NoneV
  ELSE
    WithValue(Upper(Strip(PyStr(value))), LAMBDA s :
      IF ~StartsWith(s, "DDR") THEN NoneV
      ELSE WithValue(DropDashes(SplitWhitespace(s)[1]), LAMBDA core :
             IF core \in {"DDR", "DDR1"} THEN StrV("DDR1")
             ELSE IF core \in {"DDR2", "DDR3", "DDR4", "DDR5"} THEN StrV(core)
             ELSE NoneV))

\* _normalize_manufacturer(value)
normalize_manufacturer(value) ==
  IF ~Truthy(value) THEN NoneV
  ELSE WithValue(Strip(PyStr(value)), LAMBDA s : IF s = "" THEN NoneV ELSE StrV(s))

\* _normalize_dram_mfg(value)
normalize_dram_mfg(value) ==
  IF ~Truthy(value) THEN NoneV
  ELSE
    WithValue(Strip(PyStr(value)), LAMBDA s :
      WithValue(Lower(s), LAMBDA lower :
        IF s = "" THEN NoneV
        ELSE IF Contains(lower, "hynix") THEN StrV("SK Hynix")
        ELSE IF Contains(lower, "samsung") THEN StrV("Samsung")
        ELSE IF Contains(lower, "micron") THEN StrV("Micron")
        ELSE IF Contains(lower, "nanya") THEN StrV("Nanya")
        ELSE StrV(s)))

\* _parse_module_gb(value): the float or None, and whether a float() call raised.
parse_module_gb(value) ==
  IF value.t = "none" THEN [raised |-> FALSE, value |-> NoneV]
  ELSE IF IsNumber(value) THEN ToFloat(value)
  ELSE
    WithValue(Upper(Strip(PyStr(value))), LAMBDA s :
      WithValue(NumberWithUnit(s, "MB"), LAMBDA mb :
        WithValue(NumberWithUnit(s, "GB"), LAMBDA gb :
          IF s = "" THEN [raised |-> FALSE, value |-> NoneV]
          ELSE IF mb # ""
            THEN WithValue(ToFloat(StrV(mb)), LAMBDA f :
                   [raised |-> f.raised,
                    value |-> IF f.raised THEN NoneV ELSE DivideBy1024(f.value)])
          ELSE IF gb # "" THEN ToFloat(StrV(gb))
          ELSE IF IsPlainNumber(s) THEN ToFloat(StrV(s))
          ELSE [raised |-> FALSE, value |-> NoneV])))

\* f as it is
IntIfIntegral_KeepsFloat(f) == f

\* int(f) if f.is_integer() else f
IntIfIntegral(f) == IF f.e = 0 THEN IntV(f.n) ELSE f

\* _normalize_module_ranks(value)
normalize_module_ranks(value) ==
  IF ~Truthy(value) THEN NoneV
  ELSE
    WithValue(Upper(Strip(PyStr(value))), LAMBDA s :
      IF s = "" THEN NoneV
      ELSE IF Len(s) = 2 /\ IsDigitChar(CharAt(s, 1)) /\ CharAt(s, 2) = "R" THEN StrV(s)
      ELSE IF s \in {"SINGLE", "SINGLE RANK"} THEN StrV("1R")
      ELSE IF s \in {"DUAL", "DUAL RANK"} THEN StrV("2R")
      ELSE IF s \in {"QUAD", "QUAD RANK"} THEN StrV("4R")
      ELSE IF AllDigits(s) THEN StrV(s \o "R")
      ELSE NoneV)

\* re.search(r"(\d+)\s*bits?", s).group(1), "" for None
RECURSIVE SearchBits(_)
SearchBits(s) ==
  IF s = "" THEN ""
  ELSE
    WithValue(DigitRun(s), LAMBDA n :
      WithValue(SubSeq(s, n + 1, Len(s)), LAMBDA rest :
        IF n > 0 /\ StartsWith(SubSeq(rest, SpaceRun(rest) + 1, Len(rest)), "bit")
        THEN SubSeq(s, 1, n)
        ELSE SearchBits(Tail(s))))

\* _normalize_chip_org(value)
normalize_chip_org(value) ==
  IF ~Truthy(value) THEN NoneV
  ELSE
    WithValue(Lower(Strip(PyStr(value))), LAMBDA s :
      WithValue(SearchBits(s), LAMBDA bits_match :
        IF s = "" THEN NoneV
        ELSE IF bits_match # "" THEN StrV("x" \o bits_match)
        ELSE IF Len(s) >= 2 /\ CharAt(s, 1) = "x" /\ AllDigits(Tail(s)) THEN StrV(s)
        ELSE NoneV))

\* _extract_first_str(d, keys)
RECURSIVE extract_first_str(_, _)
extract_first_str(d, keys) ==
  IF keys = << >> THEN NoneV
  ELSE IF Head(keys) \in DOMAIN d /\ Truthy(d[Head(keys)])
    THEN WithValue(Strip(PyStr(d[Head(keys)])), LAMBDA val :
           IF val # "" THEN StrV(val) ELSE extract_first_str(d, Tail(keys)))
  ELSE extract_first_str(d, Tail(keys))

\* Whether s starts with text of the given shape, where # stands for one digit and any
\* other character for itself.
RECURSIVE HasShape(_, _)
HasShape(s, shape) ==
  IF shape = "" THEN TRUE
  ELSE IF s = "" THEN FALSE
  ELSE /\ IF CharAt(shape, 1) = "#" THEN IsDigitChar(CharAt(s, 1))
          ELSE CharAt(s, 1) = CharAt(shape, 1)
       /\ HasShape(Tail(s), Tail(shape))

\* re.search of a pattern of fixed shape: the first text of the shape in s, "" for None
RECURSIVE SearchShape(_, _)
SearchShape(s, shape) ==
  IF Len(s) < Len(shape) THEN ""
  ELSE IF HasShape(s, shape) THEN SubSeq(s, 1, Len(shape))
  ELSE SearchShape(Tail(s), shape)

\* parse_xmp_from_part_number(part_number)
parse_xmp_from_part_number(part_number) ==
  IF ~Truthy(part_number) THEN NoneV
  ELSE
    WithValue(PyStr(part_number), LAMBDA text :
      WithValue(SearchShape(text, "####-##-##-##"), LAMBDA full_pattern :
        WithValue(SearchShape(text, "####C##"), LAMBDA simple :
          IF full_pattern # "" THEN StrV(full_pattern)
          ELSE IF simple # ""
            THEN StrV(SubSeq(simple, 1, 4) \o "-" \o SubSeq(simple, 6, 7))
          ELSE NoneV)))

\* dimm.get(k1) or dimm.get(k2) or ...: the first value that is true, else the last
RECURSIVE FirstTrue(_, _)
FirstTrue(d, keys) ==
  IF Len(keys) = 1 THEN Get(d, Head(keys))
  ELSE PyOr(Get(d, Head(keys)), FirstTrue(d, Tail(keys)))

\* norm[k] = v whatever v is
Emitted_Always(k, v, emit) == (k :> v)

\* norm[k] = v when emit, and nothing otherwise
Emitted(k, v, emit) == IF emit THEN (k :> v) ELSE EmptyDict

\* re.match(r"^(\d+(?:\.\d+)?)", s).group(1), "" for None
NumberPrefix(s) == SubSeq(s, 1, NumberPrefixLen(s))

\* The sticker, version and IC fields the normalizer copies.
StickerKeys ==
  <<"gskill_sticker_code", "corsair_version", "crucial_sticker_suffix",
    "hynix_ic_part_number">>

RECURSIVE CopiedStickers(_, _)
CopiedStickers(d, keys) ==
  IF keys = << >> THEN EmptyDict
  ELSE WithValue(Strip(PyStr(Get(d, Head(keys)))), LAMBDA val :
         Emitted(Head(keys), StrV(val),
                 Head(keys) \in DOMAIN d /\ Truthy(d[Head(keys)]) /\ val # ""))
       @@ CopiedStickers(d, Tail(keys))

\* if v: norm[k] = v
EmittedIfTrue(k, v) == WithValue(v, LAMBDA x : Emitted(k, x, Truthy(x)))

\* voltage_norm of the voltage_xmp section
VoltageNorm(voltage_src) ==
  IF voltage_src.t = "none" THEN NoneV
  ELSE IF IsNumber(voltage_src) THEN StrV(PyStr(voltage_src))
  ELSE WithValue(Strip(PyStr(voltage_src)), LAMBDA s :
         WithValue(NumberPrefix(s), LAMBDA m :
           IF m # "" THEN StrV(m) ELSE IF s # "" THEN StrV(s) ELSE NoneV))

\* v_norm of the voltage_jdec section: the float or None, and whether float() raised.
JedecVoltageNorm(jedec_voltage_src) ==
  IF jedec_voltage_src.t = "none" THEN [raised |-> FALSE, value |-> NoneV]
  ELSE IF IsNumber(jedec_voltage_src) THEN ToFloat(jedec_voltage_src)
  ELSE WithValue(NumberPrefix(Strip(PyStr(jedec_voltage_src))), LAMBDA m :
         IF m # "" THEN ToFloat(StrV(m)) ELSE [raised |-> FALSE, value |-> NoneV])

\* timings_xmp_str of the timings_xmp section
TimingsXmpStr(timings_xmp, part_number) ==
  IF Truthy(timings_xmp) THEN StrV(Strip(PyStr(timings_xmp)))
  ELSE IF Truthy(part_number) THEN parse_xmp_from_part_number(part_number)
  ELSE NoneV

\* normalize_dimm_data(dimm): whether the call raised and, when it did not, the dict
\* it returns. The call assigns nothing to dimm.
normalize_dimm_data(d) ==
  WithValue(
    parse_module_gb(
      FirstTrue(d, <<"module_gb", "Module Capacity", "Module Capacity (MB)", "Size",
                     "Module Size">>)),
    LAMBDA module_gb :
  WithValue(
    extract_first_str(d,
      <<"Part Number", "Module Part Number", "module_part_number", "PartNumber", "P/N">>),
    LAMBDA part_number :
  WithValue(
    JedecVoltageNorm(
      FirstTrue(d, <<"JEDEC_voltage", "Module Nominal Voltage", "Nominal Voltage">>)),
    LAMBDA v_norm :
  LET gen == PyOr(normalize_generation(Get(d, "generation")),
                  PyOr(normalize_generation(Get(d, "Memory Type")),
                       normalize_generation(Get(d, "DRAM Generation"))))
      manufacturer ==
        normalize_manufacturer(extract_first_str(d,
          <<"Module Manufacturer", "Manufacturer", "manufacturer", "Brand",
            "Module Vendor">>))
      dram_mfg ==
        normalize_dram_mfg(extract_first_str(d,
          <<"DRAM Manufacturer", "DRAM MFG", "IC Manufacturer", "dram_mfg">>))
      module_ranks ==
        normalize_module_ranks(
          FirstTrue(d, <<"module_ranks", "Ranks", "Rank", "rank", "Module Ranks">>))
      chip_org ==
        normalize_chip_org(
          FirstTrue(d, <<"chip_org", "SDRAM Device Width", "Chip Organization",
                         "Organization">>))
      timings_xmp_str == TimingsXmpStr(Get(d, "timings_xmp"), part_number)
      timings_jdec == FirstTrue(d, <<"timings_jdec", "timings_jedec", "JEDEC Timings">>)
      timings_jdec_str ==
        IF Truthy(timings_jdec) THEN StrV(Strip(PyStr(timings_jdec))) ELSE NoneV
      voltage_norm ==
        VoltageNorm(FirstTrue(d, <<"voltage_xmp", "XMP Voltage", "Voltage XMP">>))
      raised == module_gb.raised \/ v_norm.raised
      norm ==
        EmittedIfTrue("generation", gen)
        @@ EmittedIfTrue("manufacturer", manufacturer)
        @@ EmittedIfTrue("dram_mfg", dram_mfg)
        @@ Emitted("module_gb", IntIfIntegral(module_gb.value),
                   module_gb.value.t # "none")
        @@ EmittedIfTrue("module_ranks", module_ranks)
        @@ EmittedIfTrue("chip_org", chip_org)
        @@ EmittedIfTrue("module_part_number", part_number)
        @@ CopiedStickers(d, StickerKeys)
        @@ EmittedIfTrue("timings_xmp", timings_xmp_str)
        @@ EmittedIfTrue("timings_jdec", timings_jdec_str)
        @@ EmittedIfTrue("voltage_xmp", voltage_norm)
        @@ Emitted("voltage_jdec", v_norm.value, v_norm.value.t # "none")
  IN [raised |-> raised, norm |-> IF raised THEN EmptyDict ELSE norm])))

\* dimm.update(norm)
Update(d, norm) == norm @@ d

(***************************************************************************)
(* The normalizer as the scan calls it (scanner.py): one raw record, a     *)
(* first call whose result is merged into the record, and a second pass    *)
(* that normalizes the merged record and merges again.                     *)
(***************************************************************************)

\* The most fields of one raw record.
MaxRawFields == 2

\* Fields as decode-dimms and the callers name them, with values that are text or
\* numbers: well-formed, blank, and not parsable.
RawFieldPool ==
  { <<"generation", StrV("ddr-4")>>, <<"Memory Type", StrV("DDR4 SDRAM")>>,
    <<"DRAM Generation", StrV("SDRAM")>>,
    <<"Manufacturer", StrV(" Corsair ")>>, <<"manufacturer", StrV("  ")>>,
    <<"DRAM Manufacturer", StrV("SK hynix")>>, <<"dram_mfg", StrV("Kingston")>>,
    <<"module_gb", StrV("0 MB")>>, <<"module_gb", StrV("16384 MB")>>,
    <<"module_gb", StrV("16.0 GB")>>, <<"module_gb", IntV(0)>>,
    <<"Module Capacity", StrV("1536 MB")>>, <<"Module Capacity", StrV("16gb")>>,
    <<"Module Capacity (MB)", StrV("1000 MB")>>,
    <<"Size", StrV("16 GB")>>, <<"Size", StrV("1.5 GB")>>, <<"Size", StrV("8")>>,
    <<"Size", StrV("2.5")>>, <<"Size", StrV("16 GiB")>>, <<"Size", IntV(8)>>,
    <<"Module Size", FloatV(25, 1)>>, <<"Module Size", StrV(" ")>>,
    <<"Ranks", StrV("2")>>, <<"Ranks", StrV("16")>>,
    <<"module_ranks", StrV("dual rank")>>, <<"Rank", IntV(1)>>,
    <<"rank", StrV("octal")>>,
    <<"SDRAM Device Width", StrV("8 bits")>>, <<"chip_org", StrV("X16")>>,
    <<"Organization", StrV("wide")>>,
    <<"Part Number", StrV("F4-3600C16D-16GTZ")>>,
    <<"module_part_number", StrV("KF 3200-14-14-14")>>, <<"P/N", StrV(" ")>>,
    <<"corsair_version", StrV(" 4.32 ")>>, <<"gskill_sticker_code", StrV(" ")>>,
    <<"hynix_ic_part_number", IntV(0)>>,
    <<"timings_xmp", StrV(" 3200-16 ")>>, <<"timings_xmp", StrV(" ")>>,
    <<"JEDEC Timings", StrV("2133-15-15-15")>>, <<"timings_jedec", StrV(" ")>>,
    <<"XMP Voltage", StrV("1.35 V")>>, <<"voltage_xmp", FloatV(135, 2)>>,
    <<"voltage_xmp", StrV("n/a")>>, <<"voltage_xmp", StrV(" ")>>,
    <<"Voltage XMP", IntV(0)>>,
    <<"JEDEC_voltage", StrV("1.20 V")>>, <<"JEDEC_voltage", FloatV(12, 1)>>,
    <<"Module Nominal Voltage", IntV(0)>>, <<"Nominal Voltage", StrV("unknown")>> }

RawRecordPool == {DictOf(C) : C \in PairSetsUpTo(RawFieldPool, MaxRawFields)}

NormalizerInit ==
  /\ nz_raw \in RawRecordPool
  /\ nz_dimm = nz_raw
  /\ nz_pc = "start"
  /\ nz_norm = NotCalled
  /\ nz_again = NotCalled
  /\ nz_second = NotCalled
  /\ ResolverIdle /\ MatcherIdle /\ LoaderIdle /\ ParserIdle /\ SharedIdle
  /\ SettingsIdle /\ PipelineIdle

\* What a call of normalize_dimm_data on the record d returned.
Called(d) ==
  LET r == normalize_dimm_data(d)
  IN [done |-> TRUE, raised |-> r.raised, norm |-> r.norm]

\* A call that merges what it computed into its argument.
NzNormalize_UpdatesInPlace ==
  /\ nz_pc = "start"
  /\ nz_norm' = Called(nz_dimm)
  /\ nz_dimm' = Update(nz_dimm, nz_norm'.norm)
  /\ nz_pc' = "called"
  /\ UNCHANGED <<nz_raw, nz_again, nz_second>>
  /\ UNCHANGED <<resolverVars, matcherVars, loaderVars, parserVars, sharedVars, settingsVars, pipelineVars>>

\* norm = normalize_dimm_data(dimm)
NzNormalize ==
  /\ nz_pc = "start"
  /\ nz_norm' = Called(nz_dimm)
  /\ nz_pc' = "called"
  /\ UNCHANGED <<nz_raw, nz_dimm, nz_again, nz_second>>
  /\ UNCHANGED <<resolverVars, matcherVars, loaderVars, parserVars, sharedVars, settingsVars, pipelineVars>>

\* normalize_dimm_data(dimm) once more, before the caller has touched the record
NzNormalizeAgain ==
  /\ nz_pc = "called"
  /\ ~nz_again.done
  /\ nz_again' = Called(nz_dimm)
  /\ UNCHANGED <<nz_raw, nz_dimm, nz_pc, nz_norm, nz_second>>
  /\ UNCHANGED <<resolverVars, matcherVars, loaderVars, parserVars, sharedVars, settingsVars, pipelineVars>>

\* dimm.update(norm)
NzUpdate ==
  /\ nz_pc = "called"
  /\ ~nz_norm.raised
  /\ nz_dimm' = Update(nz_dimm, nz_norm.norm)
  /\ nz_pc' = "updated"
  /\ UNCHANGED <<nz_raw, nz_norm, nz_again, nz_second>>
  /\ UNCHANGED <<resolverVars, matcherVars, loaderVars, parserVars, sharedVars, settingsVars, pipelineVars>>

\* The second pass: dimm.update(normalize_dimm_data(dimm))
NzSecondPass ==
  /\ nz_pc = "updated"
  /\ nz_second' = Called(nz_dimm)
  /\ nz_dimm' = IF nz_second'.raised THEN nz_dimm ELSE Update(nz_dimm, nz_second'.norm)
  /\ nz_pc' = "done"
  /\ UNCHANGED <<nz_raw, nz_norm, nz_again>>
  /\ UNCHANGED <<resolverVars, matcherVars, loaderVars, parserVars, sharedVars, settingsVars, pipelineVars>>

NormalizerNext == NzNormalize \/ NzNormalizeAgain \/ NzUpdate \/ NzSecondPass

NormalizerSpec == NormalizerInit /\ [][NormalizerNext]_vars

(***************************************************************************)
(* find_die_type called for several records over one database: each call   *)
(* has its own locals and takes the steps of the scan one entry at a time, *)
(* in any interleaving with the other calls.                               *)
(***************************************************************************)

\* The longest database the calls share.
MaxSharedRules == 2

\* The calls, one per record.
Calls == {1, 2}

\* The locals of a call that has scanned nothing yet.
FreshLocals == [pc |-> "scan", i |-> 1, best_matches |-> << >>, best_priority |-> NoneV]

SharedInit ==
  /\ cc_db \in {SortByPriority(doc) : doc \in SeqsUpTo(RulePool, MaxSharedRules)}
  /\ cc_dimms \in {<<a, b>> : a \in DimmPool, b \in DimmPool}
  /\ cc_given = [db |-> cc_db, dimms |-> cc_dimms]
  /\ cc_local = <<FreshLocals, FreshLocals>>
  /\ cc_result = <<NoResult, NoResult>>
  /\ ResolverIdle /\ MatcherIdle /\ LoaderIdle /\ ParserIdle /\ NormalizerIdle
  /\ SettingsIdle /\ PipelineIdle

\* The entry the call c is at, when its scan has one left.
AtEntry(c) == cc_local[c].pc = "scan" /\ cc_local[c].i <= Len(cc_db)
Entry(c) == cc_db[cc_local[c].i]

\* if not is_match(dimm, entry): continue
CcSkip(c) ==
  /\ AtEntry(c)
  /\ ~is_match(cc_dimms[c], Entry(c))
  /\ cc_local' = [cc_local EXCEPT ![c].i = @ + 1]
  /\ UNCHANGED <<cc_given, cc_db, cc_dimms, cc_result>>
  /\ UNCHANGED <<resolverVars, matcherVars, loaderVars, parserVars, normalizerVars,
               settingsVars, pipelineVars>>

\* A scan that takes the entry it selects out of the database.
CcReplace_TakesEntry(c) ==
  /\ AtEntry(c)
  /\ is_match(cc_dimms[c], Entry(c))
  /\ cc_local[c].best_priority.t = "none" \/
       Entry(c)["priority"].n > cc_local[c].best_priority.n
  /\ cc_local' = [cc_local EXCEPT ![c].best_priority = Entry(c)["priority"],
                                  ![c].best_matches = <<Entry(c)>>]
  /\ cc_db' = SubSeq(cc_db, 1, cc_local[c].i - 1) \o
              SubSeq(cc_db, cc_local[c].i + 1, Len(cc_db))
  /\ UNCHANGED <<cc_given, cc_dimms, cc_result>>
  /\ UNCHANGED <<resolverVars, matcherVars, loaderVars, parserVars, normalizerVars,
               settingsVars, pipelineVars>>

\* if best_priority is None or priority > best_priority
CcReplace(c) ==
  /\ AtEntry(c)
  /\ is_match(cc_dimms[c], Entry(c))
  /\ cc_local[c].best_priority.t = "none" \/
       Entry(c)["priority"].n > cc_local[c].best_priority.n
  /\ cc_local' = [cc_local EXCEPT ![c].best_priority = Entry(c)["priority"],
                                  ![c].best_matches = <<Entry(c)>>,
                                  ![c].i = @ + 1]
  /\ UNCHANGED <<cc_given, cc_db, cc_dimms, cc_result>>
  /\ UNCHANGED <<resolverVars, matcherVars, loaderVars, parserVars, normalizerVars,
               settingsVars, pipelineVars>>

\* elif priority == best_priority
CcAppend(c) ==
  /\ AtEntry(c)
  /\ is_match(cc_dimms[c], Entry(c))
  /\ cc_local[c].best_priority.t # "none"
  /\ Entry(c)["priority"].n = cc_local[c].best_priority.n
  /\ cc_local' = [cc_local EXCEPT ![c].best_matches = Append(@, Entry(c)),
                                  ![c].i = @ + 1]
  /\ UNCHANGED <<cc_given, cc_db, cc_dimms, cc_result>>
  /\ UNCHANGED <<resolverVars, matcherVars, loaderVars, parserVars, normalizerVars,
               settingsVars, pipelineVars>>

\* priority < best_priority: the entry is ignored and the scan goes on
CcIgnore(c) ==
  /\ AtEntry(c)
  /\ is_match(cc_dimms[c], Entry(c))
  /\ cc_local[c].best_priority.t # "none"
  /\ Entry(c)["priority"].n < cc_local[c].best_priority.n
  /\ cc_local' = [cc_local EXCEPT ![c].i = @ + 1]
  /\ UNCHANGED <<cc_given, cc_db, cc_dimms, cc_result>>
  /\ UNCHANGED <<resolverVars, matcherVars, loaderVars, parserVars, normalizerVars,
               settingsVars, pipelineVars>>

\* The loop has ended: the call resolves its best matches and returns.
CcReturn(c) ==
  /\ cc_local[c].pc = "scan" /\ cc_local[c].i > Len(cc_db)
  /\ cc_result' = [cc_result EXCEPT ![c] = Resolve(cc_local[c].best_matches)]
  /\ cc_local' = [cc_local EXCEPT ![c].pc = "done"]
  /\ UNCHANGED <<cc_given, cc_db, cc_dimms>>
  /\ UNCHANGED <<resolverVars, matcherVars, loaderVars, parserVars, normalizerVars,
               settingsVars, pipelineVars>>

SharedNext ==
  \E c \in Calls : CcSkip(c) \/ CcReplace(c) \/ CcAppend(c) \/ CcIgnore(c) \/ CcReturn(c)

SharedSpec == SharedInit /\ [][SharedNext]_vars

(***************************************************************************)
(* Claims about classification over a shared database.                     *)
(***************************************************************************)

\* The entries of a database that match a record, and those of them with the highest
\* priority, in the order of the database.
MatchesIn(d, database) == SelectSeq(database, LAMBDA e : is_match(d, e))
BestIn(d, database) ==
  LET matches == MatchesIn(d, database)
  IN SelectSeq(matches,
       LAMBDA e : \A k \in 1..Len(matches) : matches[k]["priority"].n <= e["priority"].n)

\* What find_die_type returns for a record classified alone.
ClassifiedAlone(d, database) == Resolve(BestIn(d, database))

\* C22: classification is side-effect free: the calls leave the database and the
\* records as they were given, and under every interleaving of the calls each record
\* receives the result it receives when it is classified alone.
C22_SharedDatabaseSafe ==
  /\ cc_db = cc_given.db
  /\ cc_dimms = cc_given.dimms
  /\ \A c \in DOMAIN cc_local :
       cc_local[c].pc = "done" =>
         cc_result[c] = ClassifiedAlone(cc_given.dimms[c], cc_given.db)

\* One call has returned a die type for its record while the other, for another
\* record, is in the middle of its scan with a best match in hand.
C22_Witness ==
  /\ cc_local # << >>
  /\ \E c, o \in Calls :
       /\ c # o
       /\ cc_dimms[c] # cc_dimms[o]
       /\ cc_local[c].pc = "done"
       /\ cc_result[c].die_type \notin {StrV("Unknown"), StrV("Ambiguous")}
       /\ cc_local[o].pc = "scan" /\ cc_local[o].i = 2 /\ Len(cc_db) = 2
       /\ cc_local[o].best_matches # << >>

(***************************************************************************)
(* More claims about is_match.                                             *)
(***************************************************************************)

\* The keys of a record that can hold the IC part number.
IcKeys == {"hynix_ic_part_number", "Hynix IC Part Number", "hynix_ic_pn"}

\* The IC part numbers of a record that are usable: text of 8 characters or more.
UsableIcs(d) ==
  {d[k].s : k \in {q \in IcKeys \cap DOMAIN d : IsStr(d[q]) /\ Len(d[q].s) >= 8}}

\* C21: when the rule has hynix_ic_parse_8th, is_match returns True only if the record
\* has an IC part number that is text of 8 characters or more whose 8th character is
\* the rule value up to case; a record with no such text is never matched.
C21_Hynix8thCharacter ==
  (im_result.done /\ im_result.value /\ "hynix_ic_parse_8th" \in DOMAIN im_entry) =>
    \E ic \in UsableIcs(im_dimm) :
      Lower(CharAt(ic, 8)) = Lower(PyStr(im_entry["hynix_ic_parse_8th"]))

\* A rule with the value in lower case has matched a record whose IC part number has
\* the letter in upper case at the 8th place.
C21_Witness ==
  /\ im_result.done /\ im_result.value
  /\ "hynix_ic_parse_8th" \in DOMAIN im_entry
  /\ im_entry["hynix_ic_parse_8th"] = StrV("g")
  /\ Get(im_dimm, "hynix_ic_part_number") = StrV("H5CG48AGBDX018")

(***************************************************************************)
(* Claims about normalize_dimm_data.                                       *)
(***************************************************************************)

SourceKeys(k) ==
  CASE k = "generation" -> {"generation", "Memory Type", "DRAM Generation"}
    [] k = "manufacturer" ->
         {"Module Manufacturer", "Manufacturer", "manufacturer", "Brand", "Module Vendor"}
    [] k = "dram_mfg" -> {"DRAM Manufacturer", "DRAM MFG", "IC Manufacturer", "dram_mfg"}
    [] k = "module_gb" ->
         {"module_gb", "Module Capacity", "Module Capacity (MB)", "Size", "Module Size"}
    [] k = "module_ranks" -> {"module_ranks", "Ranks", "Rank", "rank", "Module Ranks"}
    [] k = "chip_org" ->
         {"chip_org", "SDRAM Device Width", "Chip Organization", "Organization"}
    [] k \in {"module_part_number", "timings_xmp"} ->
         {"Part Number", "Module Part Number", "module_part_number", "PartNumber", "P/N"}
         \cup (IF k = "timings_xmp" THEN {"timings_xmp"} ELSE {})
    [] k = "timings_jdec" -> {"timings_jdec", "timings_jedec", "JEDEC Timings"}
    [] k = "voltage_xmp" -> {"voltage_xmp", "XMP Voltage", "Voltage XMP"}
    [] k = "voltage_jdec" -> {"JEDEC_voltage", "Module Nominal Voltage", "Nominal Voltage"}
    [] OTHER -> {k}

\* A value that is null, the empty string or white space only.
IsBlank(v) == v.t = "none" \/ (v.t = "str" /\ Strip(v.s) = "")

\* The calls of normalize_dimm_data made so far: the record each was given and the
\* dict it returned.
CallsMade ==
  {c \in { [given |-> nz_raw, returned |-> nz_norm],
           [given |-> nz_raw, returned |-> nz_again],
           [given |-> Update(nz_raw, nz_norm.norm), returned |-> nz_second] } :
     c.returned.done}

\* C18: every key normalize_dimm_data emits has a non-empty value: no key of a
\* returned dict maps to null, to the empty string or to white space only, and a
\* field none of whose source keys holds a non-blank value in the input is absent from
\* the returned dict.
C18_EmittedValuesNonEmpty ==
  \A c \in CallsMade :
    \A k \in DOMAIN c.returned.norm :
      /\ ~IsBlank(c.returned.norm[k])
      /\ \E src \in SourceKeys(k) \cap DOMAIN c.given : ~IsBlank(c.given[src])

\* A call has returned a dict with a field for a record that holds, beside the source
\* of the field, a blank value under a key the normalizer reads.
C18_Witness ==
  /\ nz_norm.done
  /\ nz_norm.norm # EmptyDict
  /\ \E k \in DOMAIN nz_raw : IsBlank(nz_raw[k])

\* C19: normalization is idempotent under re-derivation: with n the dict the first
\* call returned for the raw record d and d' the record d updated with n, the second
\* pass, normalize_dimm_data(d'), returns n again, and so leaves every field of the
\* record as it was.
C19_IdempotentUnderRederivation ==
  nz_second.done =>
    /\ nz_second.norm = nz_norm.norm
    /\ nz_dimm = Update(nz_raw, nz_norm.norm)

\* The value the first call derives module_gb from.
ModuleGbSource ==
  FirstTrue(nz_raw,
    <<"module_gb", "Module Capacity", "Module Capacity (MB)", "Size", "Module Size">>)

\* Text that is digits, or digits, a point and digits.
IsDecimalText(s) ==
  /\ s # "" /\ StrToFloat(s).ok
  /\ IsDigitChar(CharAt(s, 1)) /\ IsDigitChar(CharAt(s, Len(s)))

\* The text before the unit a text ends with, in any case and with any white space
\* around its parts.
BeforeUnit(s, unit) ==
  LET t == Upper(Strip(s)) IN Strip(SubSeq(t, 1, Len(t) - Len(unit)))

\* Text of the form "<n> MB" or "<n> GB"
HasUnit(s, unit) == EndsWith(Upper(Strip(s)), unit) /\ IsDecimalText(BeforeUnit(s, unit))

\* The number m / 10^x doubled k times.
RECURSIVE DoubleTimes(_, _, _)
DoubleTimes(m, x, k) ==
  IF k = 0 THEN NormFloat(m, x)
  ELSE DoubleTimes(NormFloat(2 * m, x).n, NormFloat(2 * m, x).e, k - 1)

\* Whether the emitted module_gb is the number num, an int when num is integral and
\* a float when it is not.
EmitsNumber(norm, num) ==
  /\ "module_gb" \in DOMAIN norm
  /\ PyEq(norm["module_gb"], num)
  /\ norm["module_gb"].t = IF num.e = 0 THEN "int" ELSE "float"

\* C20: module_gb normalization: for a source text "<n> MB" the emitted module_gb is
\* n / 1024 (1024 times the emitted value is n), for "<n> GB" or a bare number n it is
\* n; the emitted value is an int when it is integral and a float when it is not; and
\* for any other source text no module_gb is emitted.
C20_ModuleGbRules ==
  (nz_norm.done /\ IsStr(ModuleGbSource)) =>
    LET s == ModuleGbSource.s
        norm == nz_norm.norm
        n(text) == NormFloat(StrToFloat(text).n, StrToFloat(text).e)
    IN IF HasUnit(s, "MB")
         THEN /\ "module_gb" \in DOMAIN norm
              /\ DoubleTimes(norm["module_gb"].n, norm["module_gb"].e, 10)
                   = n(BeforeUnit(s, "MB"))
              /\ norm["module_gb"].t = IF norm["module_gb"].e = 0 THEN "int" ELSE "float"
       ELSE IF HasUnit(s, "GB") THEN EmitsNumber(norm, n(BeforeUnit(s, "GB")))
       ELSE IF IsDecimalText(Strip(s)) THEN EmitsNumber(norm, n(Strip(s)))
       ELSE "module_gb" \notin DOMAIN norm

\* The first call was given a capacity in MB that is a whole number of GB and has
\* emitted it as an int.
C20_Witness ==
  /\ nz_norm.done
  /\ IsStr(ModuleGbSource)
  /\ HasUnit(ModuleGbSource.s, "MB")
  /\ nz_norm.norm["module_gb"] = IntV(16)

(***************************************************************************)
(* SettingsService (settings_service.py): the service in memory and the    *)
(* configuration file it loads from and saves to.                          *)
(***************************************************************************)

DEFAULT_SETTINGS ==
  ("theme" :> StrV("dark")) @@ ("active_tab" :> StrV("summary_tab")) @@
  ("default_view_tab" :> StrV("summary"))

\* The values each validation rule lets through (lambda x: x in [...]).
VALIDATION_RULES ==
  ("theme" :> {StrV("dark"), StrV("light")}) @@
  ("active_tab" :> {StrV("summary_tab"), StrV("full_tab")}) @@
  ("default_view_tab" :> {StrV("summary"), StrV("full")})

\* The set {1, 2}, the tuple (1, 2) and the list [1, 2].
SetV == [t |-> "set", s |-> "", n |-> 0, e |-> 0]
TupleV == [t |-> "tuple", s |-> "", n |-> 0, e |-> 0]
ListV == [t |-> "list", s |-> "", n |-> 0, e |-> 0]

\* A validation rule that lets every value through.
validate_setting_AnyValue(key, value) == TRUE

validate_setting(key, value) ==
  IF key \notin DOMAIN VALIDATION_RULES THEN TRUE
  ELSE \E allowed \in VALIDATION_RULES[key] : PyEq(allowed, value)

\* The configuration file: absent, holding a JSON object, or holding text that is
\* no JSON document.
Absent == [kind |-> "absent", doc |-> EmptyDict]
Corrupt == [kind |-> "corrupt", doc |-> EmptyDict]
JsonFile(d) == [kind |-> "json", doc |-> d]

\* json.dump raises TypeError for a value it cannot encode; what it writes for the
\* others is read back by json.load as the same value, a tuple as a list.
JsonEncodable(v) == v.t # "set"
JsonReadBack(v) == IF v.t = "tuple" THEN ListV ELSE v

\* The file after save_settings: unchanged when the directory or the file cannot be
\* written (OSError, logged only); cut short when json.dump raises after open() has
\* truncated the file (logged only); the settings as JSON otherwise.
save_settings(settings, file, writable) ==
  IF ~writable THEN file
  ELSE IF \E k \in DOMAIN settings : ~JsonEncodable(settings[k]) THEN Corrupt
  ELSE JsonFile(DictOf({<<k, JsonReadBack(settings[k])>> : k \in DOMAIN settings}))

\* The settings after load_settings: the defaults when the file is absent or cannot
\* be decoded, what the file holds plus the missing defaults otherwise.
load_settings(file) ==
  IF file.kind = "json" THEN file.doc @@ DEFAULT_SETTINGS ELSE DEFAULT_SETTINGS

get_setting(settings, key, default) ==
  IF ~IsStr(key) THEN default ELSE GetOr(settings, key.s, default)

\* The keys and values set_setting is called with, and the files a service starts on.
SettingKeys ==
  {StrV("theme"), StrV("active_tab"), StrV("default_view_tab"), StrV("custom"), IntV(5), NoneV}
SettingValues ==
  {StrV("dark"), StrV("light"), StrV("blue"), StrV("full_tab"), StrV("full"), IntV(1),
   NoneV, SetV, TupleV}
FilePool ==
  {Absent, Corrupt, JsonFile("theme" :> StrV("light")),
   JsonFile(("custom" :> IntV(1)) @@ DEFAULT_SETTINGS)}

\* A call on the service: what was called, with what, what it returned, and for a
\* construction the call it came after.
Call(op, after, key, value, ret) ==
  [op |-> op, after |-> after, key |-> key, value |-> value, ret |-> ret]

\* SettingsService(): the paths are initialized and the settings loaded.
SettingsInit ==
  /\ ss_file \in FilePool
  /\ ss_writable \in BOOLEAN
  /\ ss_settings = load_settings(ss_file)
  /\ ss_last = Call("__init__", "", NoneV, NoneV, FALSE)
  /\ ResolverIdle /\ MatcherIdle /\ LoaderIdle /\ ParserIdle /\ NormalizerIdle
  /\ SharedIdle /\ PipelineIdle

\* set_setting: if not isinstance(key, str): return False
SsSetInvalidKey(key, value) ==
  /\ ~IsStr(key)
  /\ ss_last' = Call("set_setting", "", key, value, FALSE)
  /\ UNCHANGED <<ss_file, ss_writable, ss_settings>>
  /\ UNCHANGED <<resolverVars, matcherVars, loaderVars, parserVars, normalizerVars,
               sharedVars, pipelineVars>>

\* set_setting: if not self.validate_setting(key, value): return False
SsSetInvalidValue(key, value) ==
  /\ IsStr(key)
  /\ ~validate_setting(key.s, value)
  /\ ss_last' = Call("set_setting", "", key, value, FALSE)
  /\ UNCHANGED <<ss_file, ss_writable, ss_settings>>
  /\ UNCHANGED <<resolverVars, matcherVars, loaderVars, parserVars, normalizerVars,
               sharedVars, pipelineVars>>

\* set_setting: self._settings[key] = value; self.save_settings(); return True
SsSet(key, value) ==
  /\ IsStr(key)
  /\ validate_setting(key.s, value)
  /\ ss_settings' = Put(ss_settings, key.s, value)
  /\ ss_file' = save_settings(ss_settings', ss_file, ss_writable)
  /\ ss_last' = Call("set_setting", "", key, value, TRUE)
  /\ UNCHANGED ss_writable
  /\ UNCHANGED <<resolverVars, matcherVars, loaderVars, parserVars, normalizerVars,
               sharedVars, pipelineVars>>

\* reset_to_defaults
SsReset ==
  /\ ss_settings' = DEFAULT_SETTINGS
  /\ ss_file' = save_settings(ss_settings', ss_file, ss_writable)
  /\ ss_last' = Call("reset_to_defaults", "", NoneV, NoneV, FALSE)
  /\ UNCHANGED ss_writable
  /\ UNCHANGED <<resolverVars, matcherVars, loaderVars, parserVars, normalizerVars,
               sharedVars, pipelineVars>>

\* A SettingsService constructed on the same configuration path after a call on the
\* one before it.
SsConstruct ==
  /\ ss_last.op \in {"set_setting", "reset_to_defaults"}
  /\ ss_settings' = load_settings(ss_file)
  /\ ss_last' = [ss_last EXCEPT !.op = "__init__", !.after = ss_last.op]
  /\ UNCHANGED <<ss_file, ss_writable>>
  /\ UNCHANGED <<resolverVars, matcherVars, loaderVars, parserVars, normalizerVars,
               sharedVars, pipelineVars>>

SettingsNext ==
  \/ \E key \in SettingKeys, value \in SettingValues :
       SsSetInvalidKey(key, value) \/ SsSetInvalidValue(key, value) \/ SsSet(key, value)
  \/ SsReset
  \/ SsConstruct

SettingsSpec == SettingsInit /\ [][SettingsNext]_vars

(***************************************************************************)
(* Claims about SettingsService.                                           *)
(***************************************************************************)

\* The values the three validated keys take.
AllowedValues(k) ==
  IF k = "theme" THEN {"dark", "light"}
  ELSE IF k = "active_tab" THEN {"summary_tab", "full_tab"}
  ELSE IF k = "default_view_tab" THEN {"summary", "full"}
  ELSE {}
HasRule(k) == k \in {"theme", "active_tab", "default_view_tab"}
FailsRule(k, v) == HasRule(k) /\ ~(IsStr(v) /\ v.s \in AllowedValues(k))

\* C23: a set_setting call with a key that is no string, or with a value that fails
\* the key's validation rule, returns False and leaves the settings in memory and the
\* configuration file as they were; a call with a string key that has no validation
\* rule returns True and stores the value, whatever the value is.
C23_SetSettingValidation ==
  [][ss_last'.op = "set_setting" =>
       LET key == ss_last'.key
           value == ss_last'.value
       IN /\ (~IsStr(key) \/ (IsStr(key) /\ FailsRule(key.s, value))) =>
               /\ ss_last'.ret = FALSE
               /\ UNCHANGED <<ss_settings, ss_file>>
          /\ (IsStr(key) /\ ~HasRule(key.s)) =>
               /\ ss_last'.ret = TRUE
               /\ get_setting(ss_settings', key, NoneV) = value]_vars

\* A value was refused for a validated key on a service whose settings are not the
\* defaults and whose file holds them.
C23_Witness ==
  /\ ss_last.op = "set_setting"
  /\ ss_last.key = StrV("theme") /\ ss_last.value = StrV("blue")
  /\ ss_last.ret = FALSE
  /\ ss_settings # DEFAULT_SETTINGS
  /\ ss_file = JsonFile(ss_settings)

\* C24: after a set_setting call that returned True, a service constructed next on
\* the same path returns the value set from get_setting for that key; after
\* reset_to_defaults it returns the defaults.
C24_TrueMeansSaved ==
  /\ (ss_last.op = "__init__" /\ ss_last.after = "set_setting" /\ ss_last.ret) =>
       get_setting(ss_settings, ss_last.key, NoneV) = ss_last.value
  /\ (ss_last.op = "__init__" /\ ss_last.after = "reset_to_defaults") =>
       \A k \in DOMAIN DEFAULT_SETTINGS :
         get_setting(ss_settings, StrV(k), NoneV) = DEFAULT_SETTINGS[k]

(***************************************************************************)
(* parse_output on texts whose matrix rows are shorter or longer than the  *)
(* header, leave cells empty or are labelled "slot".                       *)
(***************************************************************************)

\* The longest text with such rows, in lines.
MaxMatrixLines == 3

\* A matrix header with two columns, a row of slots, a row with one value, a row
\* with three values the first of which is empty, and a row labelled "slot"; a block
\* marker, a guess line and a field line.
MatrixLinePool ==
  { "Field | DIMM 0 | DIMM 1",
    "Guessing DIMM is in | bank 3 | bank 4",
    "Part Number | PN-A",
    "Part Number | | PN-B | PN-C",
    "slot | s1",
    "Decoding EEPROM 5-0052",
    "Guessing DIMM is in  bank 1",
    "Part Number  EX1" }

MatrixInit == ParserStart(SeqsUpTo(MatrixLinePool, MaxMatrixLines))

MatrixSpec == MatrixInit /\ [][ParserNext]_vars

(***************************************************************************)
(* Claims about the rows of the matrix.                                    *)
(***************************************************************************)

\* The rows after the header that carry a label, in order.
LabelledRows ==
  LET h == HeaderIndex(lines)
      labelled(row) ==
        /\ Contains(row, "|")
        /\ LET label_raw == RStripColons(StrippedParts(row)[1])
           IN /\ label_raw # ""
              /\ ~StartsWith(label_raw, "#")
              /\ Lower(label_raw) \notin noise_labels
  IN IF h = 0 THEN << >>
     ELSE SelectSeq(RowsUntilBlock(SubSeq(lines, h + 1, Len(lines))), labelled)

\* The cell of a row under column i of the header: empty where the row has no value.
CellUnder(row, i) ==
  LET parts == StrippedParts(row)
  IN IF i + 1 <= Len(parts) THEN parts[i + 1] ELSE ""

\* The keys a row stores its cells under.
KeysOfRow(row) ==
  LET key == CanonicalKey(RStripColons(StrippedParts(row)[1]))
  IN IF key = "Guessing DIMM is in" THEN {key, "slot"} ELSE {key}

\* The record of column i when every row wrote its non-empty cell under that column
\* and nothing else: each key holds the cell of the last row that had one.
ColumnRecord(rows, i) ==
  LET writers(k) == {r \in 1..Len(rows) : k \in KeysOfRow(rows[r]) /\ CellUnder(rows[r], i) # ""}
      keys == {k \in UNION {KeysOfRow(rows[r]) : r \in 1..Len(rows)} : writers(k) # {}}
  IN [k \in keys |->
        CellUnder(rows[CHOOSE r \in writers(k) : \A q \in writers(k) : q <= r], i)]

\* C25: a row shorter than the header leaves the columns it has no value for as they
\* were, a row longer than the header writes its first k values only, and an empty
\* cell leaves the value an earlier row stored: the records of the matrix are those of
\* the columns 1..k, each key holding the last non-empty cell under its column.
C25_RowsPaddedAndTruncated ==
  (po_pc \notin {"idle", "start"} /\ HeaderIndex(lines) # 0) =>
    LET k == Len(StrippedParts(lines[HeaderIndex(lines)])) - 1
        rows == LabelledRows
        columns == [i \in 1..k |-> ColumnRecord(rows, i)]
    IN dimms_matrix = SelectSeq(columns, LAMBDA d : DOMAIN d # {})

\* A row with one value and then a row with three values whose first cell is empty
\* were read under a header of two columns: the first record keeps its part number
\* and the third value is in no record.
C25_Witness ==
  /\ po_pc = "done"
  /\ lines = <<"Field | DIMM 0 | DIMM 1", "Part Number | PN-A",
               "Part Number | | PN-B | PN-C">>
  /\ Len(dimms_matrix) = 2
  /\ dimms_matrix[1]["module_part_number"] = "PN-A"
  /\ dimms_matrix[2]["module_part_number"] = "PN-B"

\* C30: every record of the result has a slot that is not empty, and a record with
\* a "Guessing DIMM is in" field has that field equal to its slot.
C30_EveryRecordHasItsSlot ==
  ParseDone =>
    \A r \in 1..Len(po_result) :
      /\ "slot" \in DOMAIN po_result[r]
      /\ po_result[r]["slot"] # ""
      /\ "Guessing DIMM is in" \in DOMAIN po_result[r] =>
           po_result[r]["Guessing DIMM is in"] = po_result[r]["slot"]

\* The records of the result have a slot that is not empty.
SlotsNotEmpty ==
  ParseDone => \A r \in 1..Len(po_result) : GetOr(po_result[r], "slot", "") # ""

\* The guess field of a record differs from its slot only in a record of the matrix
\* that a row labelled "slot" wrote to.
GuessIsSlotButForSlotRows ==
  ParseDone =>
    \A r \in 1..Len(po_result) :
      ("Guessing DIMM is in" \in DOMAIN po_result[r]
         /\ po_result[r]["Guessing DIMM is in"] # po_result[r]["slot"]) =>
        /\ r \in MatrixResults
        /\ \E j \in 1..Len(lines) : StartsWith(lines[j], "slot |")

(***************************************************************************)
(* parse_output on texts with both kinds of block header.                  *)
(***************************************************************************)

\* The longest text with both kinds of header, in lines.
MaxMarkerLines == 4

\* A "Decoding EEPROM" header and an "SPD data for" header, two guess lines and a
\* field line.
MarkerLinePool ==
  { "Decoding EEPROM 5-0052",
    "SPD data for 5-0053",
    "Guessing DIMM is in  bank 1",
    "Guessing DIMM is in  bank 2",
    "Part Number  EX1" }

MarkerInit == ParserStart(SeqsUpTo(MarkerLinePool, MaxMarkerLines))

MarkerSpec == MarkerInit /\ [][ParserNext]_vars

(***************************************************************************)
(* Claims about the block headers of the plain branch.                     *)
(***************************************************************************)

\* A line that begins with one of the two block-start markers.
BeginsWithMarker(line) ==
  StartsWith(Strip(line), "Decoding EEPROM") \/ StartsWith(Strip(line), "SPD data for")

\* The keys the lines between two places of the text store in the accumulator.
KeysStoredBetween(a, b) ==
  UNION {IF IsGuess(lines[j]) THEN {"Guessing DIMM is in"} ELSE KeysOfLine(j) :
           j \in {n \in (a + 1)..(b - 1) : ~IsIgnored(lines[n], TRUE)}}

\* C26: in the line loop of the plain branch, once a line that begins with
\* "Decoding EEPROM" or with "SPD data for" has been read the field accumulator holds
\* only fields of the lines after the last such line, and before the first such
\* line the accumulator is empty and no record has been written.
C26_MarkersStartBlocks ==
  po_pc = "plain" =>
    LET read == {i \in 1..(po_idx - 1) : i <= Len(lines) /\ BeginsWithMarker(lines[i])}
    IN IF read = {}
       THEN pending_fields = EmptyDict /\ dimms_plain = << >>
       ELSE LET last == CHOOSE i \in read : \A k \in read : k <= i
            IN DOMAIN pending_fields \subseteq KeysStoredBetween(last, po_idx)

(***************************************************************************)
(* normalize_dimm_data on records whose fields are the sources of the      *)
(* generation.                                                             *)
(***************************************************************************)

\* The most fields of such a record.
MaxGenFields == 2

\* Values of the three keys the generation is read from: generations with and
\* without a dash, a suffix, a speed or a prefix, the plain "DDR" of the first
\* generation, one that does not exist, and values that are no text.
GenerationValues ==
  {StrV("DDR4"), StrV("ddr-4"), StrV("DDR SDRAM"), StrV(" ddr5 sdram"), StrV("DDR6"),
   StrV("LPDDR5"), StrV("DDR4-3200"), StrV("-DDR4"), StrV("DDR-2"), StrV(""), IntV(4), NoneV}
GenerationFieldPool ==
  {<<k, v>> : k \in {"generation", "Memory Type", "DRAM Generation"}, v \in GenerationValues}

GenerationInit ==
  /\ nz_raw \in {DictOf(C) : C \in PairSetsUpTo(GenerationFieldPool, MaxGenFields)}
  /\ nz_dimm = nz_raw
  /\ nz_pc = "start"
  /\ nz_norm = NotCalled
  /\ nz_again = NotCalled
  /\ nz_second = NotCalled
  /\ ResolverIdle /\ MatcherIdle /\ LoaderIdle /\ ParserIdle /\ SharedIdle
  /\ SettingsIdle /\ PipelineIdle

GenerationSpec == GenerationInit /\ [][NormalizerNext]_vars

(***************************************************************************)
(* Claims about the generation.                                            *)
(***************************************************************************)

Generations == {"DDR1", "DDR2", "DDR3", "DDR4", "DDR5"}

\* The text of a source value, stripped and upper-cased, and its leading token
\* without dashes; "" for a value that is false or has no token.
GenerationText(v) == IF Truthy(v) THEN Upper(Strip(PyStr(v))) ELSE ""
LeadingToken(v) ==
  LET s == GenerationText(v)
  IN IF s = "" THEN "" ELSE DropDashes(SplitWhitespace(s)[1])

\* The values of the three source keys of a record, in the order they are read.
GenerationSources(d) == <<Get(d, "generation"), Get(d, "Memory Type"), Get(d, "DRAM Generation")>>

\* What a call emits when the first source that passes the test accepts gives the
\* generation emits, and nothing when no source passes.
EmitsFirstAccepted(c, accepts(_), emits(_)) ==
  LET src == GenerationSources(c.given)
      passing == {i \in 1..3 : accepts(src[i])}
  IN IF passing = {} THEN "generation" \notin DOMAIN c.returned.norm
     ELSE /\ "generation" \in DOMAIN c.returned.norm
          /\ c.returned.norm["generation"] =
               StrV(emits(src[CHOOSE i \in passing : \A j \in passing : i <= j]))

\* C27, as stated: generation is emitted with a value in DDR1..DDR5, only when the
\* leading token of a source value, upper-cased and without dashes, is DDR1..DDR5, and
\* the value emitted is that token; every other source value is rejected.
C27_GenerationOnlyDdrN ==
  \A c \in CallsMade :
    /\ "generation" \in DOMAIN c.returned.norm =>
         c.returned.norm["generation"] \in {StrV(g) : g \in Generations}
    /\ EmitsFirstAccepted(c, LAMBDA v : LeadingToken(v) \in Generations, LeadingToken)

\* C27, amended: generation is emitted with a value in DDR1..DDR5, only when the text
\* of a source value begins with DDR and its leading token without dashes is DDR or
\* DDR1..DDR5; the value emitted is DDR1 for the token DDR and the token itself
\* otherwise, and every other source value is rejected.
C27_GenerationRules ==
  \A c \in CallsMade :
    /\ "generation" \in DOMAIN c.returned.norm =>
         c.returned.norm["generation"] \in {StrV(g) : g \in Generations}
    /\ EmitsFirstAccepted(c,
         LAMBDA v : /\ StartsWith(GenerationText(v), "DDR")
                    /\ LeadingToken(v) \in Generations \cup {"DDR"},
         LAMBDA v : IF LeadingToken(v) = "DDR" THEN "DDR1" ELSE LeadingToken(v))

\* A call has emitted DDR1 for a record whose generation is the plain "DDR SDRAM",
\* passing over a value it rejects.
C27_Witness ==
  /\ nz_norm.done
  /\ "generation" \in DOMAIN nz_raw /\ nz_raw["generation"] = StrV("DDR6")
  /\ "Memory Type" \in DOMAIN nz_raw /\ nz_raw["Memory Type"] = StrV("DDR SDRAM")
  /\ nz_norm.norm = ("generation" :> StrV("DDR1"))

(***************************************************************************)
(* find_die_type on rule lists in any order.                               *)
(***************************************************************************)

\* The longest rule list given in any order.
MaxUnsortedRules == 3

\* The database is any list of valid rules, sorted by priority or not.
UnsortedInit ==
  /\ dimm \in DimmPool
  /\ db \in SeqsUpTo(RulePool, MaxUnsortedRules)
  /\ fdt_pc = "scan"
  /\ fdt_i = 1
  /\ best_matches = << >>
  /\ best_priority = NoneV
  /\ fdt_result = NoResult
  /\ MatcherIdle /\ LoaderIdle /\ ParserIdle /\ NormalizerIdle /\ SharedIdle
  /\ SettingsIdle /\ PipelineIdle

UnsortedSpec == UnsortedInit /\ [][ResolverNext]_vars

(***************************************************************************)
(* Claims about the order of the rules.                                    *)
(***************************************************************************)

\* The lists with the rules of a list in every order.
PermutationsOf(s) ==
  {[i \in 1..Len(s) |-> s[p[i]]] :
     p \in {q \in [1..Len(s) -> 1..Len(s)] : \A a, b \in 1..Len(s) : q[a] = q[b] => a = b}}

\* C29: the die_type find_die_type returns is the one it returns for the same rules
\* in any other order, and so are the notes when no rule matches, when the best
\* matches have several die types, or when there is a single best match.
C29_RuleOrderIndependent ==
  FdtDone =>
    \A other \in PermutationsOf(db) :
      LET r == find_die_type(dimm, other)
      IN /\ r.die_type = fdt_result.die_type
         /\ (fdt_result.die_type \in {StrV("Unknown"), StrV("Ambiguous")}
               \/ Cardinality(TiedBest) = 1) => r.notes = fdt_result.notes

\* A call has returned the die type of a rule that comes after a matching rule of
\* lower priority in a list of three rules, with the notes of that rule.
C29_Witness ==
  /\ FdtDone
  /\ Len(db) = 3
  /\ \E j \in TiedBest :
       /\ TiedBest = {j}
       /\ \E k \in MatchingRules : k < j /\ db[k]["priority"].n < db[j]["priority"].n
       /\ fdt_result.die_type = db[j]["die_type"]
       /\ fdt_result.notes = Get(db[j], "notes")

(***************************************************************************)
(* The normalize-and-resolve passes of main (ramsleuth.py) over one        *)
(* record: the initial pass, the second pass, and in an interactive run    *)
(* the sticker-code prompts and the pass after them.                       *)
(***************************************************************************)

\* The longest database of the pipeline.
MaxPipelineRules == 2

\* Rules with and without notes, two of them on a sticker code.
PipelineRulePool ==
  { Rule(50, "A", Ddr4 @@ ("notes" :> StrV("base"))),
    Rule(10, "D", Ddr4),
    Rule(100, "B", Corsair @@ ("corsair_version" :> StrV("4.31"))),
    Rule(100, "C", ("gskill_sticker_code" :> StrV("21A")) @@ ("notes" :> StrV("sticker"))) }

\* Records as parse_output returns them.
PipelineRecordPool ==
  { ("Module Manufacturer" :> StrV("Corsair")) @@ ("Memory Type" :> StrV("DDR4 SDRAM")),
    ("manufacturer" :> StrV("G.Skill")) @@ ("generation" :> StrV("DDR4")),
    ("dram_mfg" :> StrV("SK Hynix")) @@ ("generation" :> StrV("DDR5")),
    "generation" :> StrV("DDR4") }

\* What the user types at a prompt, stripped: nothing, or a code.
PromptCodes == {"", "4.31", "21A"}

PipelineInit ==
  /\ pl_db \in {SortByPriority(doc) : doc \in SeqsUpTo(PipelineRulePool, MaxPipelineRules)}
  /\ pl_dimm \in PipelineRecordPool
  /\ pl_pc = "start"
  /\ pl_last = NoResult
  /\ ResolverIdle /\ MatcherIdle /\ LoaderIdle /\ ParserIdle /\ NormalizerIdle
  /\ SharedIdle /\ SettingsIdle

\* dimm["die_type"] = die_type; if notes: dimm["notes"] = notes
Annotate(d, r) ==
  LET typed == Put(d, "die_type", r.die_type)
  IN IF Truthy(r.notes) THEN Put(typed, "notes", r.notes) ELSE typed

\* if code: dimm[key] = code
SetIfCode(d, asked, key, code) == IF asked /\ code # "" THEN Put(d, key, StrV(code)) ELSE d

\* apply_lootbox_prompts on one record, for the codes typed at its prompts.
apply_lootbox_prompts(d, codes) ==
  LET manufacturer == Lower(PyStr(GetOr(d, "manufacturer", StrV(""))))
      part_number == Lower(PyStr(GetOr(d, "module_part_number", StrV(""))))
      dram_mfg == Lower(PyStr(GetOr(d, "dram_mfg", StrV(""))))
      generation == Upper(PyStr(GetOr(d, "generation", StrV(""))))
      corsair == SetIfCode(d, Contains(manufacturer, "corsair"), "corsair_version", codes.corsair)
      gskill == SetIfCode(corsair,
                          Contains(manufacturer, "g.skill") \/ Contains(manufacturer, "gskill"),
                          "gskill_sticker_code", codes.gskill)
      crucial == SetIfCode(gskill,
                           Contains(manufacturer, "crucial") /\ part_number = "bl2k16g36c16u4b",
                           "crucial_sticker_suffix", codes.crucial)
  IN SetIfCode(crucial, Contains(dram_mfg, "hynix") /\ Contains(generation, "DDR5"),
               "hynix_ic_part_number", codes.hynix)

\* The first loop of main: the default slot, then dimm.update(normalize_dimm_data(dimm)).
PlNormalize ==
  /\ pl_pc = "start"
  /\ LET slotted == SetDefault(pl_dimm, "slot", StrV("DIMM_0"))
         r == normalize_dimm_data(slotted)
     IN /\ ~r.raised
        /\ pl_dimm' = Update(slotted, r.norm)
  /\ pl_pc' = "normalized"
  /\ UNCHANGED <<pl_db, pl_last>>
  /\ UNCHANGED <<resolverVars, matcherVars, loaderVars, parserVars, normalizerVars,
               sharedVars, settingsVars>>

\* The second loop of main: find_die_type and the annotation of the record.
PlResolve ==
  /\ pl_pc = "normalized"
  /\ pl_last' = find_die_type(pl_dimm, pl_db)
  /\ pl_dimm' = Annotate(pl_dimm, pl_last')
  /\ pl_pc' = "resolved"
  /\ UNCHANGED pl_db
  /\ UNCHANGED <<resolverVars, matcherVars, loaderVars, parserVars, normalizerVars,
               sharedVars, settingsVars>>

\* The pass made again: after the initial pass, and after the prompts.
PlPassAgain ==
  /\ pl_pc \in {"resolved", "prompted"}
  /\ LET r == normalize_dimm_data(pl_dimm)
         merged == Update(pl_dimm, r.norm)
     IN /\ ~r.raised
        /\ pl_last' = find_die_type(merged, pl_db)
        /\ pl_dimm' = Annotate(merged, pl_last')
  /\ pl_pc' = IF pl_pc = "resolved" THEN "second" ELSE "done"
  /\ UNCHANGED pl_db
  /\ UNCHANGED <<resolverVars, matcherVars, loaderVars, parserVars, normalizerVars,
               sharedVars, settingsVars>>

\* apply_lootbox_prompts(dimms, interactive=True) of an interactive run
PlPrompts ==
  /\ pl_pc = "second"
  /\ \E codes \in [corsair : PromptCodes, gskill : PromptCodes, crucial : PromptCodes,
                   hynix : PromptCodes] :
       pl_dimm' = apply_lootbox_prompts(pl_dimm, codes)
  /\ pl_pc' = "prompted"
  /\ UNCHANGED <<pl_db, pl_last>>
  /\ UNCHANGED <<resolverVars, matcherVars, loaderVars, parserVars, normalizerVars,
               sharedVars, settingsVars>>

PipelineNext == PlNormalize \/ PlResolve \/ PlPassAgain \/ PlPrompts

PipelineSpec == PipelineInit /\ [][PipelineNext]_vars

(***************************************************************************)
(* Claims about the annotation of the record.                              *)
(***************************************************************************)

\* C28: after every pass that resolved the record, the record has the die type and
\* the notes the most recent find_die_type call returned for it, and no notes when
\* that call returned none.
C28_NotesOfLatestVerdict ==
  pl_pc \in {"resolved", "second", "done"} =>
    /\ Get(pl_dimm, "die_type") = pl_last.die_type
    /\ IF Truthy(pl_last.notes)
         THEN "notes" \in DOMAIN pl_dimm /\ pl_dimm["notes"] = pl_last.notes
         ELSE "notes" \notin DOMAIN pl_dimm

\* The die type of the record is that of the most recent call after every pass.
DieTypeOfLatestVerdict ==
  pl_pc \in {"resolved", "second", "done"} => Get(pl_dimm, "die_type") = pl_last.die_type

=============================================================================
